---- MODULE Spec2Model ----
(***************************************************************************)
(* Model of the checkpoint data layer: the localStorage buckets, the item  *)
(* repository (lib/data/items.ts), the achievement ledger                  *)
(* (lib/data/achievements.ts), the auto-link engine                        *)
(* (lib/autolink/detection.ts), the daily baselines                        *)
(* (lib/data/dailyPoints.ts), the migration status record                  *)
(* (lib/migration/status), the migration conflicts                         *)
(* (lib/migration/conflicts) and the migration export                      *)
(* (lib/migration/export.ts).                                              *)
(*                                                                         *)
(* Timestamps are integers read from a millisecond clock; ids are the      *)
(* integers handed out by generateUUID; null is Null.                      *)
(***************************************************************************)
EXTENDS Integers, Sequences, FiniteSets, TLC

\* Bounds of the model
MaxItems == 3
MaxAchievements == 2
MaxTime == 2
MaxCalls == 4

\* JavaScript null (no id and no timestamp is ever 0)
Null == 0

VARIABLES
  storage,  \* localStorage: the buckets items, achievements, daily_points,
            \* user and migration_status, and the answers of the medium to
            \* the coming writes
  clock,    \* what new Date() returns now
  uuid,     \* number of ids generateUUID has handed out
  calls,    \* number of API calls made so far
  last      \* the last API call: its name, arguments and result

vars == <<storage, clock, uuid, calls, last>>

----------------------------------------------------------------------------
\* Strings and schema

Texts == {"a", "A", "b"}

toLowerCase(t) ==
  IF t = "A" THEN "a" ELSE IF t = "B" THEN "b" ELSE IF t = " A" THEN " a" ELSE t

DEFAULT_POINTS == [direction |-> 100, waypoint |-> 25, step |-> 5]

ItemUpdateKeys == {"text", "type", "parent_id", "position", "completed", "points"}

\* z.object(...) drops the keys the schema does not name
stripKeys(input, keys) == [k \in (DOMAIN input) \cap keys |-> input[k]]

itemFieldsValid(input) ==
  /\ ("text" \in DOMAIN input => input.text # "")
  /\ ("type" \in DOMAIN input => input.type \in {"direction", "waypoint", "step"})
  /\ ("position" \in DOMAIN input => input.position >= 0)
  /\ ("points" \in DOMAIN input => input.points >= 0)

\* itemCreateSchema.parse: <<>> when it throws, <<validated>> otherwise
itemCreateSchema(input) ==
  IF {"text", "type"} \subseteq DOMAIN input /\ itemFieldsValid(input)
  THEN <<stripKeys(input, {"text", "type", "parent_id", "position", "points"})>>
  ELSE <<>>

\* An update schema that lets every value through
itemUpdateSchema_lax(updates) == <<stripKeys(updates, ItemUpdateKeys)>>

\* itemUpdateSchema.parse: <<>> when it throws, <<validated>> otherwise
itemUpdateSchema(updates) ==
  IF itemFieldsValid(updates)
  THEN <<stripKeys(updates, ItemUpdateKeys)>>
  ELSE <<>>

----------------------------------------------------------------------------
\* Storage buckets

\* What a key holds: nothing (getItem returns null), a text that JSON.parse
\* rejects, or the JSON text of an array, written here as the array
Missing == <<[missing |-> TRUE]>>

Malformed == <<[malformed |-> TRUE]>>

\* The answers of the medium to the coming calls of localStorage.setItem, in
\* order: TRUE for a write it accepts, FALSE for one it rejects with
\* QuotaExceededError; past the end, and with NoQuota, it accepts every write
NoQuota == <<>>

QuotaError == "localStorage quota exceeded. Please clear some data."

\* A read without the catch: the unparseable text reaches the caller
parseBucket_uncaught(data) ==
  IF data = Missing THEN <<>> ELSE data

\* try { if (!data) return []; return JSON.parse(data) } catch { return [] }
parseBucket(data) ==
  IF data = Missing THEN <<>>
  ELSE IF data = Malformed THEN <<>>
  ELSE data

\* The error a set* call throws: <<>> when the write is accepted
setError(st) ==
  IF st.quota # NoQuota /\ ~Head(st.quota) THEN <<QuotaError>> ELSE <<>>

\* A set* call that tries once more after a rejected write
setItem_retries(st, key, value) ==
  IF st.quota = NoQuota THEN [st EXCEPT ![key] = value]
  ELSE IF Head(st.quota) THEN [st EXCEPT ![key] = value, !.quota = Tail(@)]
  ELSE IF Tail(st.quota) = NoQuota \/ Head(Tail(st.quota))
  THEN [st EXCEPT ![key] = value,
                  !.quota = IF Tail(@) = NoQuota THEN NoQuota ELSE Tail(Tail(@))]
  ELSE [st EXCEPT !.quota = Tail(Tail(@))]

\* localStorage.setItem(key, JSON.stringify(value)): a rejected write leaves
\* the key as it was
setItem(st, key, value) ==
  IF st.quota = NoQuota THEN [st EXCEPT ![key] = value]
  ELSE IF Head(st.quota) THEN [st EXCEPT ![key] = value, !.quota = Tail(@)]
  ELSE [st EXCEPT !.quota = Tail(@)]

getItems(st) == parseBucket(st.items)

setItems(st, items) == setItem(st, "items", items)

getAchievements(st) == parseBucket(st.achievements)

setAchievements(st, achievements) == setItem(st, "achievements", achievements)

getDailyPoints(st) == parseBucket(st.daily_points)

setDailyPoints(st, dailyPoints) == setItem(st, "daily_points", dailyPoints)

createDefaultUser(now) ==
  [id |-> "local-user", email |-> Null, display_name |-> Null, preferences |-> <<>>,
   created_at |-> now, updated_at |-> now]

getUser(st, now) ==
  IF st.user = Missing THEN createDefaultUser(now)
  ELSE IF st.user = Malformed THEN createDefaultUser(now)
  ELSE st.user[1]

setUser(st, user) == setItem(st, "user", <<user>>)

\* The outcome of a call that ends with one set* call: the error of the write
\* leaves the call uncaught, otherwise the call returns ret
written(st, after, ret) ==
  IF setError(st) # <<>>
  THEN [storage |-> after, ret |-> <<>>, threw |-> TRUE, error |-> setError(st)[1]]
  ELSE [storage |-> after, ret |-> ret, threw |-> FALSE]

\* Array.prototype.findIndex on id; 0 stands for -1
findIndex(rows, id) ==
  IF \E i \in 1..Len(rows) : rows[i].id = id
  THEN CHOOSE i \in 1..Len(rows) :
         /\ rows[i].id = id
         /\ \A j \in 1..(i - 1) : rows[j].id # id
  ELSE 0

\* An unstable sort: a row goes in front of the rows of equal created_at
insertByCreatedAt_unstable(sorted, x) ==
  LET n == Cardinality({i \in 1..Len(sorted) : sorted[i].created_at < x.created_at})
  IN SubSeq(sorted, 1, n) \o <<x>> \o SubSeq(sorted, n + 1, Len(sorted))

\* Array.prototype.sort is stable: equal keys keep their order
insertByCreatedAt(sorted, x) ==
  LET n == Cardinality({i \in 1..Len(sorted) : sorted[i].created_at <= x.created_at})
  IN SubSeq(sorted, 1, n) \o <<x>> \o SubSeq(sorted, n + 1, Len(sorted))

RECURSIVE sortByCreatedAt(_)
sortByCreatedAt(rows) ==
  IF rows = <<>> THEN <<>>
  ELSE insertByCreatedAt(sortByCreatedAt(SubSeq(rows, 1, Len(rows) - 1)), rows[Len(rows)])

insertByPosition(sorted, x) ==
  LET n == Cardinality({i \in 1..Len(sorted) : sorted[i].position <= x.position})
  IN SubSeq(sorted, 1, n) \o <<x>> \o SubSeq(sorted, n + 1, Len(sorted))

RECURSIVE sortByPosition(_)
sortByPosition(rows) ==
  IF rows = <<>> THEN <<>>
  ELSE insertByPosition(sortByPosition(SubSeq(rows, 1, Len(rows) - 1)), rows[Len(rows)])

----------------------------------------------------------------------------
\* Item repository. Every mutating operation returns the storage it leaves,
\* its return value (<<>> for null, <<row>> for a row) and whether it threw.

\* createItem giving up on a bucket it cannot parse
createItem_refusesMalformed(st, input, now, id) ==
  [storage |-> st, ret |-> <<>>, threw |-> TRUE,
   error |-> IF itemCreateSchema(input) = <<>> THEN "ZodError" ELSE "SyntaxError"]

createItem(st, input, now, id) ==
  LET parsed == itemCreateSchema(input) IN
  IF parsed = <<>>
  THEN [storage |-> st, ret |-> <<>>, threw |-> TRUE, error |-> "ZodError"]
  ELSE
    LET validated == parsed[1]
        item == [id |-> id,
                 user_id |-> Null,
                 text |-> validated.text,
                 type |-> validated.type,
                 parent_id |-> IF "parent_id" \in DOMAIN validated
                               THEN validated.parent_id ELSE Null,
                 position |-> IF "position" \in DOMAIN validated
                              THEN validated.position ELSE 0,
                 completed |-> FALSE,
                 completed_at |-> Null,
                 points |-> IF "points" \in DOMAIN validated
                            THEN validated.points ELSE DEFAULT_POINTS[validated.type],
                 deleted_at |-> Null,
                 created_at |-> now,
                 updated_at |-> now]
    IN written(st, setItems(st, Append(getItems(st), item)), <<item>>)

\* updateItem keeping completed_at when completed is set to false
updateItem_keepsStamp(st, itemId, updates, now) ==
  LET parsed == itemUpdateSchema(updates) IN
  IF parsed = <<>>
  THEN [storage |-> st, ret |-> <<>>, threw |-> TRUE, error |-> "ZodError"]
  ELSE
    LET validated == parsed[1]
        items == getItems(st)
        index == findIndex(items, itemId)
    IN IF index = 0 THEN [storage |-> st, ret |-> <<>>, threw |-> FALSE]
       ELSE
         LET currentItem == items[index]
             sets(b) == "completed" \in DOMAIN validated /\ validated.completed = b
             completed_at == IF sets(TRUE) /\ ~currentItem.completed THEN now
                             ELSE currentItem.completed_at
             updatedItem == [k \in DOMAIN currentItem |->
                               IF k = "completed_at" THEN completed_at
                               ELSE IF k = "updated_at" THEN now
                               ELSE IF k \in DOMAIN validated THEN validated[k]
                               ELSE currentItem[k]]
         IN [storage |-> setItems(st, [items EXCEPT ![index] = updatedItem]),
             ret |-> <<updatedItem>>, threw |-> FALSE]

\* updateItem stamping created_at as it stamps updated_at
updateItem_restamps(st, itemId, updates, now) ==
  LET parsed == itemUpdateSchema(updates) IN
  IF parsed = <<>>
  THEN [storage |-> st, ret |-> <<>>, threw |-> TRUE, error |-> "ZodError"]
  ELSE
    LET validated == parsed[1]
        items == getItems(st)
        index == findIndex(items, itemId)
    IN IF index = 0 THEN [storage |-> st, ret |-> <<>>, threw |-> FALSE]
       ELSE
         LET currentItem == items[index]
             sets(b) == "completed" \in DOMAIN validated /\ validated.completed = b
             completed_at == IF sets(TRUE) /\ ~currentItem.completed THEN now
                             ELSE IF sets(FALSE) THEN Null
                             ELSE currentItem.completed_at
             updatedItem == [k \in DOMAIN currentItem |->
                               IF k = "completed_at" THEN completed_at
                               ELSE IF k \in {"updated_at", "created_at"} THEN now
                               ELSE IF k \in DOMAIN validated THEN validated[k]
                               ELSE currentItem[k]]
         IN written(st, setItems(st, [items EXCEPT ![index] = updatedItem]),
                    <<updatedItem>>)

\* updateItem giving back its default points to an item whose patch names none
updateItem_resetsPoints(st, itemId, updates, now) ==
  LET parsed == itemUpdateSchema(updates) IN
  IF parsed = <<>>
  THEN [storage |-> st, ret |-> <<>>, threw |-> TRUE, error |-> "ZodError"]
  ELSE
    LET validated == parsed[1]
        items == getItems(st)
        index == findIndex(items, itemId)
    IN IF index = 0 THEN [storage |-> st, ret |-> <<>>, threw |-> FALSE]
       ELSE
         LET currentItem == items[index]
             sets(b) == "completed" \in DOMAIN validated /\ validated.completed = b
             completed_at == IF sets(TRUE) /\ ~currentItem.completed THEN now
                             ELSE IF sets(FALSE) THEN Null
                             ELSE currentItem.completed_at
             updatedItem == [k \in DOMAIN currentItem |->
                               IF k = "completed_at" THEN completed_at
                               ELSE IF k = "updated_at" THEN now
                               ELSE IF k \in DOMAIN validated THEN validated[k]
                               ELSE IF k = "points" THEN DEFAULT_POINTS[currentItem.type]
                               ELSE currentItem[k]]
         IN written(st, setItems(st, [items EXCEPT ![index] = updatedItem]),
                    <<updatedItem>>)

updateItem(st, itemId, updates, now) ==
  LET parsed == itemUpdateSchema(updates) IN
  IF parsed = <<>>
  THEN [storage |-> st, ret |-> <<>>, threw |-> TRUE, error |-> "ZodError"]
  ELSE
    LET validated == parsed[1]
        items == getItems(st)
        index == findIndex(items, itemId)
    IN IF index = 0 THEN [storage |-> st, ret |-> <<>>, threw |-> FALSE]
       ELSE
         LET currentItem == items[index]
             sets(b) == "completed" \in DOMAIN validated /\ validated.completed = b
             completed_at == IF sets(TRUE) /\ ~currentItem.completed THEN now
                             ELSE IF sets(FALSE) THEN Null
                             ELSE currentItem.completed_at
             updatedItem == [k \in DOMAIN currentItem |->
                               IF k = "completed_at" THEN completed_at
                               ELSE IF k = "updated_at" THEN now
                               ELSE IF k \in DOMAIN validated THEN validated[k]
                               ELSE currentItem[k]]
         IN written(st, setItems(st, [items EXCEPT ![index] = updatedItem]),
                    <<updatedItem>>)

\* deleteItem cascading the soft delete to the children of the item
deleteItem_cascade(st, itemId, now) ==
  LET items == getItems(st)
      index == findIndex(items, itemId)
  IN IF index = 0 THEN [storage |-> st, ret |-> <<>>, threw |-> FALSE]
     ELSE
       LET deletedItem == [items[index] EXCEPT !.deleted_at = now, !.updated_at = now]
       IN [storage |-> setItems(st, [i \in 1..Len(items) |->
                         IF i = index THEN deletedItem
                         ELSE IF items[i].parent_id = itemId
                         THEN [items[i] EXCEPT !.deleted_at = now]
                         ELSE items[i]]),
           ret |-> <<deletedItem>>, threw |-> FALSE]

\* deleteItem removing the achievement records of the item
deleteItem_dropsLedger(st, itemId, now) ==
  LET items == getItems(st)
      index == findIndex(items, itemId)
  IN IF index = 0 THEN [storage |-> st, ret |-> <<>>, threw |-> FALSE]
     ELSE
       LET deletedItem == [items[index] EXCEPT !.deleted_at = now, !.updated_at = now]
           kept == SelectSeq(getAchievements(st), LAMBDA a : a.item_id # itemId)
       IN [storage |-> setAchievements(setItems(st, [items EXCEPT ![index] = deletedItem]),
                                       kept),
           ret |-> <<deletedItem>>, threw |-> FALSE]

deleteItem(st, itemId, now) ==
  LET items == getItems(st)
      index == findIndex(items, itemId)
  IN IF index = 0 THEN [storage |-> st, ret |-> <<>>, threw |-> FALSE]
     ELSE
       LET deletedItem == [items[index] EXCEPT !.deleted_at = now, !.updated_at = now]
       IN written(st, setItems(st, [items EXCEPT ![index] = deletedItem]),
                  <<deletedItem>>)

\* restoreItem treating the restored item as newly created
restoreItem_restamps(st, itemId, now) ==
  LET items == getItems(st)
      index == findIndex(items, itemId)
  IN IF index = 0 THEN [storage |-> st, ret |-> <<>>, threw |-> FALSE]
     ELSE
       LET restoredItem == [items[index] EXCEPT !.deleted_at = Null, !.updated_at = now,
                                                !.created_at = now]
       IN [storage |-> setItems(st, [items EXCEPT ![index] = restoredItem]),
           ret |-> <<restoredItem>>, threw |-> FALSE]

restoreItem(st, itemId, now) ==
  LET items == getItems(st)
      index == findIndex(items, itemId)
  IN IF index = 0 THEN [storage |-> st, ret |-> <<>>, threw |-> FALSE]
     ELSE
       LET restoredItem == [items[index] EXCEPT !.deleted_at = Null, !.updated_at = now]
       IN written(st, setItems(st, [items EXCEPT ![index] = restoredItem]),
                  <<restoredItem>>)

\* Array.prototype.find: <<>> for null
getItemById(st, itemId) ==
  LET items == getItems(st)
      index == findIndex(items, itemId)
  IN IF index = 0 THEN <<>> ELSE <<items[index]>>

getActiveItemById(st, itemId) ==
  LET active == SelectSeq(getItems(st),
                          LAMBDA item : item.id = itemId /\ item.deleted_at = Null)
  IN IF active = <<>> THEN <<>> ELSE <<active[1]>>

\* getItemsByParentId that returns the children in store order
getItemsByParentId_unsorted(st, parentId, includeDeleted) ==
  SelectSeq(getItems(st),
    LAMBDA item : /\ item.parent_id = parentId
                  /\ (includeDeleted \/ item.deleted_at = Null))

getItemsByParentId(st, parentId, includeDeleted) ==
  sortByPosition(SelectSeq(getItems(st),
    LAMBDA item : /\ item.parent_id = parentId
                  /\ (includeDeleted \/ item.deleted_at = Null)))

getAllItems(st) == getItems(st)

getActiveItems(st) == SelectSeq(getItems(st), LAMBDA item : item.deleted_at = Null)

getRootItems(st, includeDeleted) == getItemsByParentId(st, Null, includeDeleted)

\* getItemsByText comparing the texts as they are
getItemsByText_caseSensitive(st, text) ==
  sortByCreatedAt(SelectSeq(getItems(st),
    LAMBDA item : item.text = text /\ item.deleted_at = Null))

getItemsByText(st, text) ==
  LET lowerText == toLowerCase(text)
  IN sortByCreatedAt(SelectSeq(getItems(st),
       LAMBDA item : /\ toLowerCase(item.text) = lowerText
                     /\ item.deleted_at = Null))

----------------------------------------------------------------------------
\* Achievement ledger

achievementCreateSchema(input) ==
  IF input.points_earned >= 0 THEN <<input>> ELSE <<>>

createAchievement(st, input, now, id) ==
  LET parsed == achievementCreateSchema(input) IN
  IF parsed = <<>> THEN [storage |-> st, ret |-> <<>>, threw |-> TRUE]
  ELSE
    LET validated == parsed[1]
        achievement == [id |-> id,
                        user_id |-> Null,
                        item_id |-> validated.item_id,
                        points_earned |-> validated.points_earned,
                        achieved_at |-> now,
                        created_at |-> now]
    IN written(st, setAchievements(st, Append(getAchievements(st), achievement)),
               <<achievement>>)

\* deleteAchievement removing every record of the item of the record
deleteAchievement_ofItem(st, achievementId) ==
  LET achievements == getAchievements(st)
      index == findIndex(achievements, achievementId)
  IN IF index = 0 THEN [storage |-> st, ret |-> FALSE, threw |-> FALSE]
     ELSE [storage |-> setAchievements(st,
                         SelectSeq(achievements,
                           LAMBDA a : a.item_id # achievements[index].item_id)),
           ret |-> TRUE, threw |-> FALSE]

\* achievements.splice(index, 1)
deleteAchievement(st, achievementId) ==
  LET achievements == getAchievements(st)
      index == findIndex(achievements, achievementId)
  IN IF index = 0 THEN [storage |-> st, ret |-> FALSE, threw |-> FALSE]
     ELSE written(st, setAchievements(st,
                          SubSeq(achievements, 1, index - 1)
                          \o SubSeq(achievements, index + 1, Len(achievements))),
                  TRUE)

\* sort by achieved_at DESC, stable
insertByAchievedAtDesc(sorted, x) ==
  LET n == Cardinality({i \in 1..Len(sorted) : sorted[i].achieved_at >= x.achieved_at})
  IN SubSeq(sorted, 1, n) \o <<x>> \o SubSeq(sorted, n + 1, Len(sorted))

RECURSIVE sortByAchievedAtDesc(_)
sortByAchievedAtDesc(rows) ==
  IF rows = <<>> THEN <<>>
  ELSE insertByAchievedAtDesc(sortByAchievedAtDesc(SubSeq(rows, 1, Len(rows) - 1)),
                              rows[Len(rows)])

getAchievementsForItem(st, itemId) ==
  sortByAchievedAtDesc(SelectSeq(getAchievements(st), LAMBDA a : a.item_id = itemId))

----------------------------------------------------------------------------
\* Auto-link engine

findDuplicateItems(st, text) == getItemsByText(st, text)

\* determineCanonicalInstance taking the last element for the first
determineCanonicalInstance_last(items) ==
  IF items = <<>> THEN <<>>
  ELSE <<[canonical |-> [k \in (DOMAIN items[Len(items)]) \cup {"isCanonical"} |->
                           IF k = "isCanonical" THEN TRUE ELSE items[Len(items)][k]],
          linkedInstances |-> SubSeq(items, 1, Len(items) - 1)]>>

\* <<>> when it throws on an empty array
determineCanonicalInstance(items) ==
  IF items = <<>> THEN <<>>
  ELSE <<[canonical |-> [k \in (DOMAIN items[1]) \cup {"isCanonical"} |->
                           IF k = "isCanonical" THEN TRUE ELSE items[1][k]],
          linkedInstances |-> Tail(items)]>>

\* The first loop of enrichItemsWithAutoLinks: duplicatesMap after the first
\* n input items, as a function from item id to its duplicates
RECURSIVE duplicatesMapOf(_, _, _)
duplicatesMapOf(st, items, n) ==
  IF n = 0 THEN [map |-> <<>>, processedTexts |-> {}]
  ELSE
    LET before == duplicatesMapOf(st, items, n - 1)
        item == items[n]
        lowerText == toLowerCase(item.text)
        duplicates == findDuplicateItems(st, item.text)
        dupIds == {duplicates[i].id : i \in 1..Len(duplicates)}
    IN IF lowerText \in before.processedTexts THEN before
       ELSE [map |-> IF Len(duplicates) > 1
                     THEN [id \in (DOMAIN before.map) \cup dupIds |->
                             IF id \in dupIds THEN duplicates ELSE before.map[id]]
                     ELSE before.map,
             processedTexts |-> before.processedTexts \cup {lowerText}]

\* enrichItemsWithAutoLinks listing the item itself among its linked instances
enrichItemsWithAutoLinks_withSelf(st, items) ==
  LET duplicatesMap == duplicatesMapOf(st, items, Len(items)).map
      parentText(linkedItem) ==
        IF linkedItem.parent_id # Null /\ getItemById(st, linkedItem.parent_id) # <<>>
        THEN getItemById(st, linkedItem.parent_id)[1].text
        ELSE "(root)"
      enrich(item) ==
        IF item.id \notin DOMAIN duplicatesMap \/ Len(duplicatesMap[item.id]) <= 1
        THEN item
        ELSE
          LET duplicates == duplicatesMap[item.id]
              canonical == determineCanonicalInstance(duplicates)[1].canonical
              linkedInstances == [i \in 1..Len(duplicates) |->
                                    [id |-> duplicates[i].id,
                                     parent_text |-> parentText(duplicates[i])]]
          IN [k \in (DOMAIN item) \cup {"linkedInstances", "isCanonical"} |->
                IF k = "linkedInstances" THEN linkedInstances
                ELSE IF k = "isCanonical" THEN item.id = canonical.id
                ELSE item[k]]
  IN [i \in 1..Len(items) |-> enrich(items[i])]

enrichItemsWithAutoLinks(st, items) ==
  LET duplicatesMap == duplicatesMapOf(st, items, Len(items)).map
      parentText(linkedItem) ==
        IF linkedItem.parent_id # Null /\ getItemById(st, linkedItem.parent_id) # <<>>
        THEN getItemById(st, linkedItem.parent_id)[1].text
        ELSE "(root)"
      enrich(item) ==
        IF item.id \notin DOMAIN duplicatesMap \/ Len(duplicatesMap[item.id]) <= 1
        THEN item
        ELSE
          LET duplicates == duplicatesMap[item.id]
              canonical == determineCanonicalInstance(duplicates)[1].canonical
              otherInstances == SelectSeq(duplicates, LAMBDA dup : dup.id # item.id)
              linkedInstances == [i \in 1..Len(otherInstances) |->
                                    [id |-> otherInstances[i].id,
                                     parent_text |-> parentText(otherInstances[i])]]
          IN [k \in (DOMAIN item) \cup {"linkedInstances", "isCanonical"} |->
                IF k = "linkedInstances" THEN linkedInstances
                ELSE IF k = "isCanonical" THEN item.id = canonical.id
                ELSE item[k]]
  IN [i \in 1..Len(items) |-> enrich(items[i])]

\* The loop of handleItemDeletion catching what a deleteItem throws and going
\* on to the next member
RECURSIVE deleteEach_swallows(_, _, _, _)
deleteEach_swallows(acc, duplicates, now, later) ==
  IF duplicates = <<>> THEN acc
  ELSE
    LET deleted == deleteItem(acc.storage, duplicates[1].id, now)
    IN deleteEach_swallows([storage |-> deleted.storage,
                            ids |-> IF deleted.ret # <<>>
                                    THEN Append(acc.ids, duplicates[1].id)
                                    ELSE acc.ids,
                            threw |-> FALSE,
                            error |-> ""],
                           Tail(duplicates), later, later)

\* duplicates.forEach(dup => deleteItem(dup.id)): each call reads the clock,
\* the first at now, the later ones at later; what a call throws leaves the
\* loop
RECURSIVE deleteEach(_, _, _, _)
deleteEach(acc, duplicates, now, later) ==
  IF duplicates = <<>> \/ acc.threw THEN acc
  ELSE
    LET deleted == deleteItem(acc.storage, duplicates[1].id, now)
    IN deleteEach([storage |-> deleted.storage,
                   ids |-> IF deleted.ret # <<>>
                           THEN Append(acc.ids, duplicates[1].id) ELSE acc.ids,
                   threw |-> deleted.threw,
                   error |-> IF deleted.threw THEN deleted.error ELSE ""],
                  Tail(duplicates), later, later)

handleItemDeletion(st, itemId, deleteAll, now, later) ==
  LET item == getItemById(st, itemId) IN
  IF item = <<>>
  THEN [storage |-> st, ret |-> [deletedCount |-> 0, itemIds |-> <<>>], threw |-> FALSE]
  ELSE IF ~deleteAll
  THEN LET deleted == deleteItem(st, itemId, now)
       IN [storage |-> deleted.storage,
           ret |-> [deletedCount |-> IF deleted.ret # <<>> THEN 1 ELSE 0,
                    itemIds |-> IF deleted.ret # <<>> THEN <<itemId>> ELSE <<>>],
           threw |-> deleted.threw,
           error |-> IF deleted.threw THEN deleted.error ELSE ""]
  ELSE LET duplicates == findDuplicateItems(st, item[1].text)
           done == deleteEach([storage |-> st, ids |-> <<>>, threw |-> FALSE,
                               error |-> ""],
                              duplicates, now, later)
       IN [storage |-> done.storage,
           ret |-> [deletedCount |-> Len(done.ids), itemIds |-> done.ids],
           threw |-> done.threw,
           error |-> done.error]

\* duplicates.forEach(dup => updateItem(dup.id, updates)); what a call throws
\* (the ZodError of the first call, the capacity error of any) leaves the loop
RECURSIVE updateEach(_, _, _, _, _)
updateEach(acc, duplicates, updates, now, later) ==
  IF duplicates = <<>> \/ acc.threw THEN acc
  ELSE
    LET updated == updateItem(acc.storage, duplicates[1].id, updates, now)
    IN updateEach([storage |-> updated.storage,
                   ids |-> IF updated.ret # <<>>
                           THEN Append(acc.ids, duplicates[1].id) ELSE acc.ids,
                   threw |-> updated.threw,
                   error |-> IF updated.threw THEN updated.error ELSE ""],
                  Tail(duplicates), updates, later, later)

\* syncLinkedItemUpdates synchronising the group whatever syncAll says
syncLinkedItemUpdates_always(st, itemId, updates, syncAll, now, later) ==
  LET item == getItemById(st, itemId) IN
  IF item = <<>>
  THEN [storage |-> st, ret |-> [updatedCount |-> 0, itemIds |-> <<>>], threw |-> FALSE]
  ELSE LET duplicates == findDuplicateItems(st, item[1].text)
           done == updateEach([storage |-> st, ids |-> <<>>, threw |-> FALSE,
                               error |-> ""],
                              duplicates, updates, now, later)
       IN [storage |-> done.storage,
           ret |-> [updatedCount |-> Len(done.ids), itemIds |-> done.ids],
           threw |-> done.threw,
           error |-> done.error]

syncLinkedItemUpdates(st, itemId, updates, syncAll, now, later) ==
  LET item == getItemById(st, itemId) IN
  IF item = <<>>
  THEN [storage |-> st, ret |-> [updatedCount |-> 0, itemIds |-> <<>>], threw |-> FALSE]
  ELSE IF ~syncAll
  THEN LET updated == updateItem(st, itemId, updates, now)
       IN [storage |-> updated.storage,
           ret |-> [updatedCount |-> IF updated.ret # <<>> THEN 1 ELSE 0,
                    itemIds |-> IF updated.ret # <<>> THEN <<itemId>> ELSE <<>>],
           threw |-> updated.threw,
           error |-> IF updated.threw THEN updated.error ELSE ""]
  ELSE LET duplicates == findDuplicateItems(st, item[1].text)
           done == updateEach([storage |-> st, ids |-> <<>>, threw |-> FALSE,
                               error |-> ""],
                              duplicates, updates, now, later)
       IN [storage |-> done.storage,
           ret |-> [updatedCount |-> Len(done.ids), itemIds |-> done.ids],
           threw |-> done.threw,
           error |-> done.error]

----------------------------------------------------------------------------
\* The state machine: one action per call of the API

NoInput == <<>>

called(op, itemId, flag, input, r) ==
  [op |-> op, itemId |-> itemId, flag |-> flag, input |-> input,
   ret |-> r.ret, threw |-> r.threw,
   error |-> IF "error" \in DOMAIN r THEN r.error ELSE ""]

storedIds(st) == {getItems(st)[i].id : i \in 1..Len(getItems(st))}

\* The ids a caller passes: every stored item and one id that is not stored
ItemTargets == storedIds(storage) \cup {uuid + 1}

\* What the clock may read later in a call that reads it more than once
Later(many) == {t \in {clock, clock + 1} : t <= MaxTime /\ (~many => t = clock)}

CompletionPatches ==
  { [completed |-> TRUE], [completed |-> FALSE], [points |-> 50],
    [text |-> "b"], [points |-> 0 - 1] }

Init ==
  /\ storage = [items |-> Missing, achievements |-> Missing, daily_points |-> Missing,
                user |-> Missing, migration_status |-> <<>>, quota |-> NoQuota]
  /\ clock = 1
  /\ uuid = 0
  /\ calls = 0
  /\ last = [op |-> "init", itemId |-> Null, flag |-> FALSE, input |-> NoInput,
             ret |-> <<>>, threw |-> FALSE]

Tick ==
  /\ clock < MaxTime
  /\ clock' = clock + 1
  /\ UNCHANGED <<storage, uuid, calls, last>>

CreateItem ==
  /\ calls < MaxCalls
  /\ Len(getItems(storage)) < MaxItems
  \* createItem inputs: a step with each text, at the root or under a stored
  \* item, a waypoint with explicit position and points, and an empty text
  /\ \E input \in ({ [text |-> text, type |-> "step"] : text \in Texts } \cup { [text |-> text, type |-> "step", parent_id |-> parent] : text \in Texts, parent \in storedIds(storage) } \cup { [text |-> "b", type |-> "waypoint", position |-> 1, points |-> 7], [text |-> "", type |-> "step"] }) :
       LET r == createItem(storage, input, clock, uuid + 1) IN
       /\ storage' = r.storage
       /\ uuid' = IF r.threw /\ r.error = "ZodError" THEN uuid ELSE uuid + 1
       /\ last' = called("createItem", Null, FALSE, input, r)
  /\ calls' = calls + 1
  /\ UNCHANGED clock

UpdateItem ==
  /\ calls < MaxCalls
  /\ \E itemId \in ItemTargets, updates \in (CompletionPatches \cup { [parent_id |-> parent] : parent \in storedIds(storage) \cup {Null} }) :
       LET r == updateItem(storage, itemId, updates, clock) IN
       /\ storage' = r.storage
       /\ last' = called("updateItem", itemId, FALSE, updates, r)
  /\ calls' = calls + 1
  /\ UNCHANGED <<clock, uuid>>

DeleteItem ==
  /\ calls < MaxCalls
  /\ \E itemId \in ItemTargets :
       LET r == deleteItem(storage, itemId, clock) IN
       /\ storage' = r.storage
       /\ last' = called("deleteItem", itemId, FALSE, NoInput, r)
  /\ calls' = calls + 1
  /\ UNCHANGED <<clock, uuid>>

RestoreItem ==
  /\ calls < MaxCalls
  /\ \E itemId \in ItemTargets :
       LET r == restoreItem(storage, itemId, clock) IN
       /\ storage' = r.storage
       /\ last' = called("restoreItem", itemId, FALSE, NoInput, r)
  /\ calls' = calls + 1
  /\ UNCHANGED <<clock, uuid>>

HandleItemDeletion ==
  /\ calls < MaxCalls
  /\ \E itemId \in ItemTargets, deleteAll \in BOOLEAN :
     \E later \in Later(deleteAll) :
       LET r == handleItemDeletion(storage, itemId, deleteAll, clock, later) IN
       /\ storage' = r.storage
       /\ last' = called("handleItemDeletion", itemId, deleteAll, NoInput, r)
       /\ clock' = IF r.ret.deletedCount > 1 THEN later ELSE clock
  /\ calls' = calls + 1
  /\ UNCHANGED uuid

SyncLinkedItemUpdates ==
  /\ calls < MaxCalls
  \* syncLinkedItemUpdates takes a Partial<ItemRow>
  /\ \E itemId \in ItemTargets, updates \in (CompletionPatches \cup { [points |-> 50, deleted_at |-> Null] }), syncAll \in BOOLEAN :
     \E later \in Later(syncAll) :
       LET r == syncLinkedItemUpdates(storage, itemId, updates, syncAll, clock, later) IN
       /\ storage' = r.storage
       /\ last' = called("syncLinkedItemUpdates", itemId, syncAll, updates, r)
       /\ clock' = IF r.ret.updatedCount > 1 THEN later ELSE clock
  /\ calls' = calls + 1
  /\ UNCHANGED uuid

\* The caller records a completion with the item's current points
CreateAchievement ==
  /\ calls < MaxCalls
  /\ Len(getAchievements(storage)) < MaxAchievements
  /\ \E i \in 1..Len(getItems(storage)) :
       LET item == getItems(storage)[i]
           input == [item_id |-> item.id, points_earned |-> item.points]
           r == createAchievement(storage, input, clock, uuid + 1)
       IN /\ storage' = r.storage
          /\ uuid' = IF r.threw THEN uuid ELSE uuid + 1
          /\ last' = called("createAchievement", item.id, FALSE, input, r)
  /\ calls' = calls + 1
  /\ UNCHANGED clock

DeleteAchievement ==
  /\ calls < MaxCalls
  /\ \E achievementId \in
        {getAchievements(storage)[i].id : i \in 1..Len(getAchievements(storage))}
        \cup {uuid + 1} :
       LET r == deleteAchievement(storage, achievementId) IN
       /\ storage' = r.storage
       /\ last' = called("deleteAchievement", achievementId, FALSE, NoInput, r)
  /\ calls' = calls + 1
  /\ UNCHANGED <<clock, uuid>>

Next ==
  \/ Tick
  \/ CreateItem
  \/ UpdateItem
  \/ DeleteItem
  \/ RestoreItem
  \/ HandleItemDeletion
  \/ SyncLinkedItemUpdates
  \/ CreateAchievement
  \/ DeleteAchievement

Spec == Init /\ [][Next]_vars

----------------------------------------------------------------------------
\* Properties

\* The step just taken is a call of op
Called(op) == calls' = calls + 1 /\ last'.op = op

rowsOf(rows) == {rows[i] : i \in 1..Len(rows)}

idsOf(rows) == {rows[i].id : i \in 1..Len(rows)}

\* The stored items that are active and carry the text, whatever its case
ActiveGroup(st, text) ==
  {row \in rowsOf(getItems(st)) :
     row.deleted_at = Null /\ toLowerCase(row.text) = toLowerCase(text)}

\* x is older than y, the earlier place in the store deciding between equals
Older(st, x, y) ==
  \/ x.created_at < y.created_at
  \/ /\ x.created_at = y.created_at
     /\ findIndex(getItems(st), x.id) < findIndex(getItems(st), y.id)

\* The two rows agree on every field but those named
SameBut(a, b, fields) ==
  /\ DOMAIN a = DOMAIN b
  /\ \A k \in (DOMAIN a) \ fields : a[k] = b[k]

\* C1: deleteItem(id) changes only the deleted_at and updated_at of the target;
\* every other item, the children of the target included, stays identical and
\* the active children are still returned by getItemsByParentId(id) and by
\* getActiveItems(); an id that is not stored changes nothing.
C1_DeleteItemFrame ==
  [][Called("deleteItem") =>
       LET id == last'.itemId
           before == getItems(storage)
           after == getItems(storage')
       IN IF last'.ret = <<>> THEN storage' = storage
          ELSE /\ Len(after) = Len(before)
               /\ getAchievements(storage') = getAchievements(storage)
               /\ \A i \in 1..Len(before) :
                    IF before[i].id = id
                    THEN /\ SameBut(after[i], before[i], {"deleted_at", "updated_at"})
                         /\ after[i].deleted_at = clock
                         /\ after[i].updated_at = clock
                    ELSE after[i] = before[i]
               /\ \A child \in rowsOf(before) :
                    (child.parent_id = id /\ child.id # id /\ child.deleted_at = Null)
                    => /\ child \in rowsOf(getItemsByParentId(storage', id, FALSE))
                       /\ child \in rowsOf(getActiveItems(storage'))]_vars

\* A parent with an active child has just been soft-deleted
C1_Witness ==
  /\ last.op = "deleteItem"
  /\ last.ret # <<>>
  /\ last.ret[1].deleted_at # Null
  /\ \E child \in rowsOf(getItems(storage)) :
       /\ child.parent_id = last.itemId
       /\ child.id # last.itemId
       /\ child.deleted_at = Null

ItemOperations ==
  {"updateItem", "deleteItem", "restoreItem", "handleItemDeletion",
   "syncLinkedItemUpdates"}

\* C2: no item operation (updateItem, deleteItem, restoreItem,
\* handleItemDeletion, syncLinkedItemUpdates) adds, removes or alters an
\* achievement record, so the points a record holds survive a change of the
\* item's points and the soft deletion of the item.
C2_ItemOperationsKeepLedger ==
  [][(calls' = calls + 1 /\ last'.op \in ItemOperations) =>
       /\ getAchievements(storage') = getAchievements(storage)
       /\ \A itemId \in storedIds(storage) :
            getAchievementsForItem(storage', itemId) = getAchievementsForItem(storage, itemId)]_vars

\* A completed item holding an achievement record has just been soft-deleted
C2_Witness ==
  /\ last.op \in {"deleteItem", "handleItemDeletion"}
  /\ \E item \in rowsOf(getItems(storage)) :
       /\ item.id = last.itemId
       /\ item.completed
       /\ item.deleted_at # Null
       /\ \E a \in rowsOf(getAchievementsForItem(storage, item.id)) :
            a.points_earned = item.points

\* C3: in every reachable state each stored item has completed_at non-null
\* if and only if completed is true.
C3_CompletedAtIffCompleted ==
  \A item \in rowsOf(getItems(storage)) :
    (item.completed_at # Null) <=> item.completed

\* An item completed earlier has just been patched with completed: true again
C3_Witness ==
  /\ last.op \in {"updateItem", "syncLinkedItemUpdates"}
  /\ last.input = [completed |-> TRUE]
  /\ \E item \in rowsOf(getItems(storage)) :
       /\ item.id = last.itemId
       /\ item.completed
       /\ item.completed_at < item.updated_at

\* C4 as claimed: an achievement record of an item is created exactly when
\* updateItem flips the item's completed from false to true and deleted exactly
\* when it flips completed back to false; no other step changes the ledger.
C4_LedgerFollowsCompletion ==
  [][calls' = calls + 1 =>
       \A id \in storedIds(storage) :
         LET updated == last'.op = "updateItem" /\ last'.itemId = id /\ last'.ret # <<>>
             was == getItemById(storage, id)[1].completed
             is == getItemById(storage', id)[1].completed
             before == Len(getAchievementsForItem(storage, id))
             after == Len(getAchievementsForItem(storage', id))
         IN /\ (updated /\ ~was /\ is) <=> (after = before + 1)
            /\ (updated /\ was /\ ~is) <=> (after = before - 1)]_vars

\* The id determineCanonicalInstance(findDuplicateItems(text)) reports
canonicalId(st, text) ==
  determineCanonicalInstance(findDuplicateItems(st, text))[1].canonical.id

\* enrichItemsWithAutoLinks over the active items reports the item as canonical
ReportedCanonical(st, id) ==
  \E e \in rowsOf(enrichItemsWithAutoLinks(st, getActiveItems(st))) :
    e.id = id /\ "isCanonical" \in DOMAIN e /\ e.isCanonical

targetsOf(st, itemId, all) ==
  IF all THEN {m.id : m \in ActiveGroup(st, getItemById(st, itemId)[1].text)}
  ELSE {itemId}

seqIsSet(ids, set) ==
  /\ {ids[i] : i \in 1..Len(ids)} = set
  /\ Len(ids) = Cardinality(set)

\* C6: for an active item id, handleItemDeletion(id, false) soft-deletes that
\* item alone and handleItemDeletion(id, true) soft-deletes the active items of
\* the same text, whatever the case, and nothing else; deletedCount and itemIds
\* are the items soft-deleted.
C6_DeletionHitsTheGroup ==
  [][(Called("handleItemDeletion") /\ getActiveItemById(storage, last'.itemId) # <<>>) =>
       LET before == getItems(storage)
           after == getItems(storage')
           targets == targetsOf(storage, last'.itemId, last'.flag)
       IN /\ Len(after) = Len(before)
          /\ \A i \in 1..Len(before) :
               IF before[i].id \in targets
               THEN /\ before[i].deleted_at = Null
                    /\ after[i].deleted_at # Null
                    /\ SameBut(after[i], before[i], {"deleted_at", "updated_at"})
               ELSE after[i] = before[i]
          /\ last'.ret.deletedCount = Cardinality(targets)
          /\ seqIsSet(last'.ret.itemIds, targets)]_vars

\* A whole group of two or more has just been deleted next to an active item
\* of another text
C6_Witness ==
  /\ last.op = "handleItemDeletion"
  /\ last.flag
  /\ last.ret.deletedCount >= 2
  /\ \A i \in 1..Len(last.ret.itemIds) :
       getActiveItemById(storage, last.ret.itemIds[i]) = <<>>
  /\ \E other \in rowsOf(getActiveItems(storage)) :
       toLowerCase(other.text) # toLowerCase(getItemById(storage, last.itemId)[1].text)

\* C7 as claimed: handleItemDeletion(itemId, deleteAll) changes no stored item
\* and returns deletedCount 0 and no ids when itemId is unknown or the item is
\* already soft-deleted.
C7_NoActiveItemNoDeletion ==
  [][(Called("handleItemDeletion") /\ getActiveItemById(storage, last'.itemId) = <<>>) =>
       /\ storage' = storage
       /\ last'.ret = [deletedCount |-> 0, itemIds |-> <<>>]]_vars

\* C8: getItemsByText(text) / findDuplicateItems(text) returns exactly the
\* stored items with deleted_at null whose text equals text whatever the case,
\* each once, by created_at ascending, equal created_at in store order.
C8_ByTextOldestFirst ==
  \A text \in Texts :
    LET result == getItemsByText(storage, text) IN
    /\ findDuplicateItems(storage, text) = result
    /\ rowsOf(result) = ActiveGroup(storage, text)
    /\ Len(result) = Cardinality(ActiveGroup(storage, text))
    /\ \A i, j \in 1..Len(result) : i < j => Older(storage, result[i], result[j])

\* Two matches of different case were created in the same millisecond and a
\* soft-deleted item of the same text is left out
C8_Witness ==
  \E text \in Texts :
    LET result == getItemsByText(storage, text) IN
    /\ Len(result) >= 2
    /\ result[1].created_at = result[2].created_at
    /\ result[1].text # result[2].text
    /\ \E gone \in rowsOf(getItems(storage)) :
         gone.deleted_at # Null /\ toLowerCase(gone.text) = toLowerCase(text)

\* C9: canonical status follows the live active set. When the canonical member
\* of a group is soft-deleted, the oldest remaining active member is the
\* canonical one of the next read; when an item older than every active member
\* of its group is restored, it is the canonical one of the next read.
C9_CanonicalFollowsActiveSet ==
  [][/\ ( /\ calls' = calls + 1
          /\ \/ last'.op = "deleteItem"
             \/ last'.op = "handleItemDeletion" /\ ~last'.flag
          /\ getActiveItemById(storage, last'.itemId) # <<>>
          /\ canonicalId(storage, getItemById(storage, last'.itemId)[1].text) = last'.itemId )
        => LET item == getItemById(storage, last'.itemId)[1]
               remaining == ActiveGroup(storage, item.text) \ {item}
           IN remaining # {} =>
                LET oldest == CHOOSE m \in remaining :
                                \A n \in remaining \ {m} : Older(storage, m, n)
                IN /\ canonicalId(storage', item.text) = oldest.id
                   /\ Cardinality(remaining) >= 2 =>
                        \A m \in remaining :
                          ReportedCanonical(storage', m.id) <=> m = oldest
     /\ ( /\ Called("restoreItem")
          /\ last'.ret # <<>>
          /\ getActiveItemById(storage, last'.itemId) = <<>>
          /\ \A n \in ActiveGroup(storage, getItemById(storage, last'.itemId)[1].text) :
               Older(storage, getItemById(storage, last'.itemId)[1], n) )
        => LET item == getItemById(storage, last'.itemId)[1]
               others == ActiveGroup(storage, item.text)
           IN /\ canonicalId(storage', item.text) = item.id
              /\ others # {} =>
                   /\ ReportedCanonical(storage', item.id)
                   /\ \A n \in others : ~ReportedCanonical(storage', n.id)]_vars

\* The oldest item of a text has just been soft-deleted and the oldest of the
\* two or more that remain is reported canonical
C9_Witness ==
  /\ last.op = "deleteItem"
  /\ last.ret # <<>>
  /\ LET group == ActiveGroup(storage, last.ret[1].text) IN
     /\ Cardinality(group) >= 2
     /\ \A m \in group : Older(storage, last.ret[1], m)
     /\ \E m \in group :
          /\ ReportedCanonical(storage, m.id)
          /\ \A n \in group \ {m} : Older(storage, m, n) /\ ~ReportedCanonical(storage, n.id)

\* C10: syncLinkedItemUpdates(itemId, patch, false) changes only the item
\* itemId; with syncAll = true it applies the patch to every active item of
\* itemId's text and to no other item; itemIds lists the items updated.
\* updateItem changes no item but its target.
C10_SyncHitsTheGroup ==
  [][/\ Called("updateItem") =>
          /\ Len(getItems(storage')) = Len(getItems(storage))
          /\ \A i \in 1..Len(getItems(storage)) :
               getItems(storage)[i].id # last'.itemId
               => getItems(storage')[i] = getItems(storage)[i]
     /\ Called("syncLinkedItemUpdates") =>
          IF getItemById(storage, last'.itemId) = <<>> \/ last'.threw
          THEN storage' = storage
          ELSE LET before == getItems(storage)
                   after == getItems(storage')
                   targets == targetsOf(storage, last'.itemId, last'.flag)
                   patched == (DOMAIN last'.input) \cap ItemUpdateKeys
               IN /\ Len(after) = Len(before)
                  /\ \A i \in 1..Len(before) :
                       IF before[i].id \in targets
                       THEN /\ \A k \in patched : after[i][k] = last'.input[k]
                            /\ after[i].updated_at \in {clock, clock'}
                            /\ SameBut(after[i], before[i],
                                       patched \cup {"completed_at", "updated_at"})
                       ELSE after[i] = before[i]
                  /\ last'.ret.updatedCount = Cardinality(targets)
                  /\ seqIsSet(last'.ret.itemIds, targets)]_vars

\* The points of a group of two or more have just been synchronised next to
\* an item of another text that keeps its points
C10_Witness ==
  /\ last.op = "syncLinkedItemUpdates"
  /\ last.flag
  /\ last.input = [points |-> 50]
  /\ last.ret.updatedCount >= 2
  /\ \A i \in 1..Len(last.ret.itemIds) :
       getItemById(storage, last.ret.itemIds[i])[1].points = 50
  /\ \E other \in rowsOf(getItems(storage)) :
       /\ toLowerCase(other.text) # toLowerCase(getItemById(storage, last.itemId)[1].text)
       /\ other.points # 50

\* What the canvas passes to enrichItemsWithAutoLinks: the active items, or
\* one of them alone
EnrichInputs(st) ==
  {getActiveItems(st)} \cup {<<item>> : item \in rowsOf(getActiveItems(st))}

\* The parent_text of a linked instance: the text of its stored parent, "(root)"
\* without one
parentTextOf(st, id) ==
  LET row == getItemById(st, id)[1] IN
  IF row.parent_id # Null /\ getItemById(st, row.parent_id) # <<>>
  THEN getItemById(st, row.parent_id)[1].text
  ELSE "(root)"

\* C11: enrichItemsWithAutoLinks attaches to each input item whose text group
\* has two or more active members a linkedInstances list holding exactly the
\* other active members of the group, each once, with its id and its parent's
\* text, so that membership is symmetric between any two members; an item
\* whose group has a single member gets neither linkedInstances nor isCanonical.
C11_LinkedInstancesAreTheOthers ==
  \A input \in EnrichInputs(storage) :
    LET enriched == enrichItemsWithAutoLinks(storage, input)
        linkedIds(e) == IF "linkedInstances" \in DOMAIN e
                        THEN {e.linkedInstances[k].id : k \in 1..Len(e.linkedInstances)}
                        ELSE {}
    IN /\ Len(enriched) = Len(input)
       /\ \A i \in 1..Len(input) :
            LET item == input[i]
                e == enriched[i]
                others == {m.id : m \in ActiveGroup(storage, item.text)} \ {item.id}
            IN IF others # {}
               THEN /\ DOMAIN e = (DOMAIN item) \cup {"linkedInstances", "isCanonical"}
                    /\ \A k \in DOMAIN item : e[k] = item[k]
                    /\ linkedIds(e) = others
                    /\ Len(e.linkedInstances) = Cardinality(others)
                    /\ \A k \in 1..Len(e.linkedInstances) :
                         e.linkedInstances[k].parent_text
                           = parentTextOf(storage, e.linkedInstances[k].id)
               ELSE e = item
       /\ \A i, j \in 1..Len(input) :
            enriched[i].id \in linkedIds(enriched[j])
            <=> enriched[j].id \in linkedIds(enriched[i])

\* An item under a parent and a root item of the same text link each other,
\* each with the other's parent text, and the parent itself is returned bare
C11_Witness ==
  LET enriched == enrichItemsWithAutoLinks(storage, getActiveItems(storage)) IN
  /\ \E e \in rowsOf(enriched) :
       /\ "linkedInstances" \in DOMAIN e
       /\ e.parent_id = Null
       /\ \E k \in 1..Len(e.linkedInstances) :
            e.linkedInstances[k].parent_text \in Texts
  /\ \E e \in rowsOf(enriched) :
       /\ "linkedInstances" \in DOMAIN e
       /\ e.parent_id # Null
       /\ \E k \in 1..Len(e.linkedInstances) :
            e.linkedInstances[k].parent_text = "(root)"
  /\ \E e \in rowsOf(enriched) : "linkedInstances" \notin DOMAIN e

----------------------------------------------------------------------------
\* Points by calendar date. A timestamp is the number of a tick of the clock
\* and toISOString() writes it with TicksPerDay ticks to the calendar day; a
\* date (YYYY-MM-DD) is the number of its day, 0 a string that is no date.

MaxDays == 2

TicksPerDay == 2

\* a.achieved_at.split('T')[0]
dateOf(timestamp) == ((timestamp - 1) \div TicksPerDay) + 1

\* The owners a caller names: the local owner and one account
Owners == {Null, 1}

DEFAULT_DAILY_BASELINE == 10

\* achievements.reduce((sum, a) => sum + a.points_earned, 0)
RECURSIVE sumPointsEarned(_)
sumPointsEarned(rows) ==
  IF rows = <<>> THEN 0
  ELSE sumPointsEarned(SubSeq(rows, 1, Len(rows) - 1)) + rows[Len(rows)].points_earned

getAchievementsByDateRange(st, startDate, endDate, userId) ==
  SelectSeq(getAchievements(st),
    LAMBDA a :
      LET achievedDate == dateOf(a.achieved_at)
          isInRange == achievedDate >= startDate /\ achievedDate <= endDate
          matchesUser == userId = Null \/ a.user_id = userId
      IN isInRange /\ matchesUser)

calculatePointsForDateRange(st, startDate, endDate, userId) ==
  sumPointsEarned(getAchievementsByDateRange(st, startDate, endDate, userId))

\* dailyPointsSchema.parse: FALSE when it throws
dailyPointsSchema(date, baseline_points) == date >= 1 /\ baseline_points >= 0

\* dailyPoints.findIndex(dp => dp.date === date && dp.user_id === userId)
findDailyIndex(dailyPoints, date, userId) ==
  IF \E i \in 1..Len(dailyPoints) :
       dailyPoints[i].date = date /\ dailyPoints[i].user_id = userId
  THEN CHOOSE i \in 1..Len(dailyPoints) :
         /\ dailyPoints[i].date = date /\ dailyPoints[i].user_id = userId
         /\ \A j \in 1..(i - 1) :
              ~(dailyPoints[j].date = date /\ dailyPoints[j].user_id = userId)
  ELSE 0

\* <<>> for null
getDailyPointsForDate(st, date, userId) ==
  LET dailyPoints == getDailyPoints(st)
      index == findDailyIndex(dailyPoints, date, userId)
  IN IF index = 0 THEN <<>> ELSE <<dailyPoints[index]>>

\* ensureDailyPointsRecord adding a record without looking for one
ensureDailyPointsRecord_always(st, date, userId, baselinePoints, now, id) ==
  IF ~dailyPointsSchema(date, baselinePoints)
  THEN [storage |-> st, ret |-> <<>>, threw |-> TRUE]
  ELSE LET record == [id |-> id, user_id |-> userId, date |-> date,
                      baseline_points |-> baselinePoints, created_at |-> now]
       IN [storage |-> setDailyPoints(st, Append(getDailyPoints(st), record)),
           ret |-> <<record>>, threw |-> FALSE]

ensureDailyPointsRecord(st, date, userId, baselinePoints, now, id) ==
  IF ~dailyPointsSchema(date, baselinePoints)
  THEN [storage |-> st, ret |-> <<>>, threw |-> TRUE]
  ELSE
    LET existing == getDailyPointsForDate(st, date, userId) IN
    IF existing # <<>> THEN [storage |-> st, ret |-> existing, threw |-> FALSE]
    ELSE LET record == [id |-> id, user_id |-> userId, date |-> date,
                        baseline_points |-> baselinePoints, created_at |-> now]
         IN written(st, setDailyPoints(st, Append(getDailyPoints(st), record)),
                    <<record>>)

\* calculateTotalDailyPoints counting the default baseline for a day without record
calculateTotalDailyPoints_defaultBaseline(st, date, userId) ==
  LET baseline == getDailyPointsForDate(st, date, userId)
      baselinePoints == IF baseline = <<>> THEN DEFAULT_DAILY_BASELINE
                        ELSE baseline[1].baseline_points
      achievementPoints == calculatePointsForDateRange(st, date, date, userId)
  IN baselinePoints + achievementPoints

calculateTotalDailyPoints(st, date, userId) ==
  LET baseline == getDailyPointsForDate(st, date, userId)
      baselinePoints == IF baseline = <<>> THEN 0 ELSE baseline[1].baseline_points
      achievementPoints == calculatePointsForDateRange(st, date, date, userId)
  IN baselinePoints + achievementPoints

updateBaselinePoints(st, date, baselinePoints, userId, now, id) ==
  IF ~dailyPointsSchema(date, baselinePoints)
  THEN [storage |-> st, ret |-> <<>>, threw |-> TRUE]
  ELSE
    LET dailyPoints == getDailyPoints(st)
        index == findDailyIndex(dailyPoints, date, userId)
    IN IF index = 0
       THEN ensureDailyPointsRecord(st, date, userId, baselinePoints, now, id)
       ELSE LET updated == [dailyPoints[index] EXCEPT !.baseline_points = baselinePoints]
            IN written(st, setDailyPoints(st, [dailyPoints EXCEPT ![index] = updated]),
                       <<updated>>)

\* dailyPoints.splice(index, 1)
deleteDailyPointsRecord(st, date, userId) ==
  LET dailyPoints == getDailyPoints(st)
      index == findDailyIndex(dailyPoints, date, userId)
  IN IF index = 0 THEN [storage |-> st, ret |-> FALSE, threw |-> FALSE]
     ELSE written(st, setDailyPoints(st,
                          SubSeq(dailyPoints, 1, index - 1)
                          \o SubSeq(dailyPoints, index + 1, Len(dailyPoints))),
                  TRUE)

----------------------------------------------------------------------------
\* The ledger and the daily baselines over several days

\* The dates a caller passes: every day of the model and a string that is no date
Dates == 0..MaxDays

DayTick ==
  /\ clock < MaxDays * TicksPerDay
  /\ clock' = clock + 1
  /\ UNCHANGED <<storage, uuid, calls, last>>

EnsureDailyPointsRecord ==
  /\ calls < MaxCalls
  /\ \E date \in Dates, userId \in Owners :
       LET r == ensureDailyPointsRecord(storage, date, userId, DEFAULT_DAILY_BASELINE,
                                        clock, uuid + 1)
       IN /\ storage' = r.storage
          /\ uuid' = IF r.storage = storage THEN uuid ELSE uuid + 1
          /\ last' = called("ensureDailyPointsRecord", Null, FALSE,
                            [date |-> date, userId |-> userId], r)
  /\ calls' = calls + 1
  /\ UNCHANGED clock

UpdateBaselinePoints ==
  /\ calls < MaxCalls
  /\ \E date \in Dates \ {0}, userId \in Owners, baselinePoints \in {15, 0 - 1} :
       LET r == updateBaselinePoints(storage, date, baselinePoints, userId, clock, uuid + 1)
       IN /\ storage' = r.storage
          /\ uuid' = IF Len(getDailyPoints(r.storage)) = Len(getDailyPoints(storage))
                     THEN uuid ELSE uuid + 1
          /\ last' = called("updateBaselinePoints", Null, FALSE,
                            [date |-> date, userId |-> userId,
                             baselinePoints |-> baselinePoints], r)
  /\ calls' = calls + 1
  /\ UNCHANGED clock

DeleteDailyPointsRecord ==
  /\ calls < MaxCalls
  /\ \E date \in Dates \ {0}, userId \in Owners :
       LET r == deleteDailyPointsRecord(storage, date, userId) IN
       /\ storage' = r.storage
       /\ last' = called("deleteDailyPointsRecord", Null, FALSE,
                         [date |-> date, userId |-> userId], r)
  /\ calls' = calls + 1
  /\ UNCHANGED <<clock, uuid>>

NextLedger ==
  \/ DayTick
  \/ CreateItem
  \/ CreateAchievement
  \/ DeleteAchievement
  \/ EnsureDailyPointsRecord
  \/ UpdateBaselinePoints
  \/ DeleteDailyPointsRecord

SpecLedger == Init /\ [][NextLedger]_vars

\* The daily-points records of the owner and the date
recordsOf(st, userId, date) ==
  {i \in 1..Len(getDailyPoints(st)) :
     getDailyPoints(st)[i].user_id = userId /\ getDailyPoints(st)[i].date = date}

\* C12: after any sequence of ensureDailyPointsRecord, updateBaselinePoints and
\* deleteDailyPointsRecord calls the daily-points bucket holds at most one
\* record per (user_id, date); ensureDailyPointsRecord for a pair that has a
\* record returns that record, id included, and adds nothing.
C12_OneRecordPerOwnerAndDate ==
  [][/\ \A userId \in Owners, date \in Dates :
          Cardinality(recordsOf(storage', userId, date)) <= 1
     /\ Called("ensureDailyPointsRecord") =>
          LET existing == recordsOf(storage, last'.input.userId, last'.input.date) IN
          existing # {} =>
            /\ storage' = storage
            /\ uuid' = uuid
            /\ last'.ret # <<>>
            /\ \A i \in existing : last'.ret[1] = getDailyPoints(storage)[i]]_vars

\* ensureDailyPointsRecord has just returned a record whose baseline was
\* updated before, next to the record of another owner for the same date
C12_Witness ==
  /\ last.op = "ensureDailyPointsRecord"
  /\ last.ret # <<>>
  /\ last.ret[1].baseline_points = 15
  /\ last.ret[1].created_at < clock
  /\ \E i \in 1..Len(getDailyPoints(storage)) :
       /\ getDailyPoints(storage)[i].date = last.input.date
       /\ getDailyPoints(storage)[i].user_id # last.input.userId

\* The achievement records achieved on the date
achievedOn(st, date) ==
  SelectSeq(getAchievements(st), LAMBDA a : dateOf(a.achieved_at) = date)

\* C13: calculateTotalDailyPoints(date) is the baseline_points of the baseline
\* record of the date (0 without a record) plus the sum of points_earned over
\* the achievement records whose achieved_at falls on the date.
C13_TotalIsBaselinePlusAchievements ==
  \A date \in Dates \ {0} :
    LET records == recordsOf(storage, Null, date)
        baseline == IF records = {} THEN 0
                    ELSE getDailyPoints(storage)[CHOOSE i \in records : TRUE].baseline_points
    IN calculateTotalDailyPoints(storage, date, Null)
         = baseline + sumPointsEarned(achievedOn(storage, date))

\* A day with a baseline record and an achievement, another day with an
\* achievement and no baseline record
C13_Witness ==
  \E date, other \in Dates \ {0} :
    /\ date # other
    /\ recordsOf(storage, Null, date) # {}
    /\ achievedOn(storage, date) # <<>>
    /\ recordsOf(storage, Null, other) = {}
    /\ achievedOn(storage, other) # <<>>
    /\ calculateTotalDailyPoints(storage, date, Null)
         > calculateTotalDailyPoints(storage, other, Null)
    /\ calculateTotalDailyPoints(storage, other, Null) > 0

----------------------------------------------------------------------------
\* The sums over a date range, for every achievements bucket of up to
\* MaxAchievements records of the row type (AchievementRow.user_id is
\* string | null)

\* The records the bucket may hold in place id
AchievementRows(id) ==
  { [id |-> id, user_id |-> userId, item_id |-> 1, points_earned |-> points,
     achieved_at |-> t, created_at |-> t] :
      userId \in Owners, points \in {5, 25}, t \in 1..(MaxDays * TicksPerDay) }

AchievementBuckets ==
  UNION { { bucket \in [1..n -> UNION {AchievementRows(id) : id \in 1..MaxAchievements}] :
              \A i \in 1..n : bucket[i].id = i } : n \in 0..MaxAchievements }

InitRange ==
  /\ storage \in { [items |-> Missing, achievements |-> bucket, daily_points |-> Missing,
                      user |-> Missing, migration_status |-> <<>>, quota |-> NoQuota] :
                     bucket \in AchievementBuckets }
  /\ clock = MaxDays * TicksPerDay
  /\ uuid = MaxAchievements
  /\ calls = 0
  /\ last = [op |-> "init", itemId |-> Null, flag |-> FALSE, input |-> NoInput,
             ret |-> <<>>, threw |-> FALSE]

CalculatePointsForDateRange ==
  /\ calls < MaxCalls
  /\ \E startDate \in Dates \ {0}, endDate \in Dates \ {0}, userId \in Owners :
       last' = [op |-> "calculatePointsForDateRange", itemId |-> Null, flag |-> FALSE,
                input |-> [startDate |-> startDate, endDate |-> endDate,
                           userId |-> userId],
                ret |-> calculatePointsForDateRange(storage, startDate, endDate, userId),
                threw |-> FALSE]
  /\ calls' = calls + 1
  /\ UNCHANGED <<storage, clock, uuid>>

NextRange == CalculatePointsForDateRange

SpecRange == InitRange /\ [][NextRange]_vars

C15_DeleteAchievementFrame ==
  [][Called("deleteAchievement") =>
       LET before == getAchievements(storage)
           after == getAchievements(storage')
           index == findIndex(before, last'.itemId)
       IN IF index = 0
          THEN last'.ret = FALSE /\ storage' = storage
          ELSE /\ last'.ret = TRUE
               /\ getItems(storage') = getItems(storage)
               /\ getDailyPoints(storage') = getDailyPoints(storage)
               /\ Len(after) = Len(before) - 1
               /\ \A i \in 1..Len(after) :
                    after[i] = IF i < index THEN before[i] ELSE before[i + 1]
               /\ \A date \in Dates \ {0} :
                    calculatePointsForDateRange(storage', date, date, Null)
                      = calculatePointsForDateRange(storage, date, date, Null)
                        - (IF date = dateOf(before[index].achieved_at)
                           THEN before[index].points_earned ELSE 0)]_vars

\* An achievement record has just been deleted; another record and the item
\* it belongs to are still stored
C15_Witness ==
  /\ last.op = "deleteAchievement"
  /\ last.ret = TRUE
  /\ \E a \in rowsOf(getAchievements(storage)) :
       /\ a.id # last.itemId
       /\ a.points_earned > 0
       /\ getItemById(storage, a.item_id) # <<>>

----------------------------------------------------------------------------
\* Migration status tracking (lib/migration/status). The record is kept under
\* the key waypoint:migration_status; <<>> stands for null, <<v>> for a value
\* of a nullable record or string.

\* getMigrationStatus: <<>> for null
getMigrationStatus(st) == st.migration_status

saveMigrationStatus(st, record) == [st EXCEPT !.migration_status = <<record>>]

isMigrationCompleted(st) ==
  LET status == getMigrationStatus(st)
  IN status # <<>> /\ status[1].state.status = "completed"

\* initializeMigration replacing the record whatever its status
initializeMigration_unguarded(st, userId, options, id) ==
  LET record == [migrationId |-> id,
                 userId |-> userId,
                 state |-> [status |-> "pending",
                            startedAt |-> Null,
                            completedAt |-> Null,
                            lastError |-> <<>>],
                 result |-> <<>>,
                 options |-> options]
  IN [storage |-> saveMigrationStatus(st, record), ret |-> <<record>>, threw |-> FALSE]

initializeMigration(st, userId, options, id) ==
  LET existing == getMigrationStatus(st) IN
  IF existing # <<>> /\ existing[1].state.status = "in_progress"
  THEN [storage |-> st, ret |-> <<>>, threw |-> TRUE,
        error |-> "Migration is already in progress"]
  ELSE LET record == [migrationId |-> id,
                      userId |-> userId,
                      state |-> [status |-> "pending",
                                 startedAt |-> Null,
                                 completedAt |-> Null,
                                 lastError |-> <<>>],
                      result |-> <<>>,
                      options |-> options]
       IN [storage |-> saveMigrationStatus(st, record), ret |-> <<record>>,
           threw |-> FALSE]

\* The lookup accepting whatever id the caller gives once a record is stored
recordNotFound_anyId(st, migrationId) == getMigrationStatus(st) = <<>>

\* !record || record.migrationId !== migrationId
recordNotFound(st, migrationId) ==
  LET record == getMigrationStatus(st)
  IN record = <<>> \/ record[1].migrationId # migrationId

startMigration(st, migrationId, now) ==
  IF recordNotFound(st, migrationId)
  THEN [storage |-> st, ret |-> <<>>, threw |-> TRUE,
        error |-> "Migration record not found"]
  ELSE LET record == getMigrationStatus(st)[1]
           started == [record EXCEPT !.state.status = "in_progress",
                                     !.state.startedAt = now]
       IN [storage |-> saveMigrationStatus(st, started), ret |-> <<>>, threw |-> FALSE]

\* completeMigration leaving the result of the record as it was
completeMigration_keepsResult(st, migrationId, result, now) ==
  IF recordNotFound(st, migrationId)
  THEN [storage |-> st, ret |-> <<>>, threw |-> TRUE,
        error |-> "Migration record not found"]
  ELSE LET record == getMigrationStatus(st)[1]
           completed == [record EXCEPT !.state.status = "completed",
                                       !.state.completedAt = now]
       IN [storage |-> saveMigrationStatus(st, completed), ret |-> <<>>, threw |-> FALSE]

completeMigration(st, migrationId, result, now) ==
  IF recordNotFound(st, migrationId)
  THEN [storage |-> st, ret |-> <<>>, threw |-> TRUE,
        error |-> "Migration record not found"]
  ELSE LET record == getMigrationStatus(st)[1]
           completed == [record EXCEPT !.state.status = "completed",
                                       !.state.completedAt = now,
                                       !.result = <<result>>]
       IN [storage |-> saveMigrationStatus(st, completed), ret |-> <<>>, threw |-> FALSE]

failMigration(st, migrationId, errorMessage) ==
  IF recordNotFound(st, migrationId)
  THEN [storage |-> st, ret |-> <<>>, threw |-> TRUE,
        error |-> "Migration record not found"]
  ELSE LET record == getMigrationStatus(st)[1]
           failed == [record EXCEPT !.state.status = "failed",
                                    !.state.lastError = <<errorMessage>>]
       IN [storage |-> saveMigrationStatus(st, failed), ret |-> <<>>, threw |-> FALSE]

\* resetMigration resetting a record of any status
resetMigration_anyStatus(st, migrationId) ==
  IF recordNotFound(st, migrationId)
  THEN [storage |-> st, ret |-> <<>>, threw |-> TRUE,
        error |-> "Migration record not found"]
  ELSE LET record == getMigrationStatus(st)[1]
           reset == [record EXCEPT !.state.status = "pending",
                                   !.state.startedAt = Null,
                                   !.state.completedAt = Null,
                                   !.state.lastError = <<>>,
                                   !.result = <<>>]
       IN [storage |-> saveMigrationStatus(st, reset), ret |-> <<>>, threw |-> FALSE]

resetMigration(st, migrationId) ==
  IF recordNotFound(st, migrationId)
  THEN [storage |-> st, ret |-> <<>>, threw |-> TRUE,
        error |-> "Migration record not found"]
  ELSE IF getMigrationStatus(st)[1].state.status # "failed"
  THEN [storage |-> st, ret |-> <<>>, threw |-> TRUE,
        error |-> "Can only reset failed migrations"]
  ELSE LET record == getMigrationStatus(st)[1]
           reset == [record EXCEPT !.state.status = "pending",
                                   !.state.startedAt = Null,
                                   !.state.completedAt = Null,
                                   !.state.lastError = <<>>,
                                   !.result = <<>>]
       IN [storage |-> saveMigrationStatus(st, reset), ret |-> <<>>, threw |-> FALSE]

\* The migration ids a caller passes: every id handed out and one that was not
MigrationIds == 1..(uuid + 1)

MigrationOptionsChosen ==
  { [deleteLocalAfterMigration |-> delete, conflictStrategy |-> "keep_newest",
     preserveTimestamps |-> TRUE, createBackup |-> TRUE] : delete \in BOOLEAN }

InitializeMigration ==
  /\ calls < MaxCalls
  /\ \E options \in MigrationOptionsChosen :
       LET r == initializeMigration(storage, 1, options, uuid + 1) IN
       /\ storage' = r.storage
       /\ uuid' = IF r.threw THEN uuid ELSE uuid + 1
       /\ last' = called("initializeMigration", Null, FALSE, options, r)
  /\ calls' = calls + 1
  /\ UNCHANGED clock

StartMigration ==
  /\ calls < MaxCalls
  /\ \E migrationId \in MigrationIds :
       LET r == startMigration(storage, migrationId, clock) IN
       /\ storage' = r.storage
       /\ last' = called("startMigration", migrationId, FALSE, NoInput, r)
  /\ calls' = calls + 1
  /\ UNCHANGED <<clock, uuid>>

CompleteMigration ==
  /\ calls < MaxCalls
  /\ \E migrationId \in MigrationIds, result \in { [itemsMigrated |-> n, achievementsMigrated |-> 0, dailyPointsMigrated |-> 0, errors |-> <<>>, warnings |-> <<>>] : n \in {1, 2} } :
       LET r == completeMigration(storage, migrationId, result, clock) IN
       /\ storage' = r.storage
       /\ last' = called("completeMigration", migrationId, FALSE, result, r)
  /\ calls' = calls + 1
  /\ UNCHANGED <<clock, uuid>>

FailMigration ==
  /\ calls < MaxCalls
  /\ \E migrationId \in MigrationIds :
       LET r == failMigration(storage, migrationId, "network") IN
       /\ storage' = r.storage
       /\ last' = called("failMigration", migrationId, FALSE, "network", r)
  /\ calls' = calls + 1
  /\ UNCHANGED <<clock, uuid>>

ResetMigration ==
  /\ calls < MaxCalls
  /\ \E migrationId \in MigrationIds :
       LET r == resetMigration(storage, migrationId) IN
       /\ storage' = r.storage
       /\ last' = called("resetMigration", migrationId, FALSE, NoInput, r)
  /\ calls' = calls + 1
  /\ UNCHANGED <<clock, uuid>>

NextMigration ==
  \/ Tick
  \/ InitializeMigration
  \/ StartMigration
  \/ CompleteMigration
  \/ FailMigration
  \/ ResetMigration

SpecMigration == Init /\ [][NextMigration]_vars

\* The status of the stored migration record, "none" without a record
statusOf(st) ==
  IF getMigrationStatus(st) = <<>> THEN "none"
  ELSE getMigrationStatus(st)[1].state.status

\* C16 as claimed: once the stored status is completed, isMigrationCompleted()
\* is true in every later state, whatever initializeMigration, startMigration,
\* completeMigration, failMigration and resetMigration calls follow.
C16_CompletedIsTerminal ==
  [][isMigrationCompleted(storage) => isMigrationCompleted(storage')]_vars

\* C17: initializeMigration throws and leaves the persisted status record
\* unchanged whenever the persisted record is in_progress; the guard reads the
\* persisted record only.
C17_InProgressBlocksInitialize ==
  [][(Called("initializeMigration") /\ statusOf(storage) = "in_progress") =>
       /\ last'.threw
       /\ last'.ret = <<>>
       /\ storage' = storage
       /\ uuid' = uuid]_vars

\* initializeMigration has just thrown on a record that is in progress
C17_Witness ==
  /\ last.op = "initializeMigration"
  /\ last.threw
  /\ statusOf(storage) = "in_progress"
  /\ getMigrationStatus(storage)[1].state.startedAt # Null

\* The status changes of the migration state machine
MigrationTransitions ==
  { <<"pending", "startMigration", "in_progress">>,
    <<"in_progress", "completeMigration", "completed">>,
    <<"in_progress", "failMigration", "failed">>,
    <<"failed", "resetMigration", "pending">> }

\* C18 as claimed: every change of the stored status made by startMigration,
\* completeMigration, failMigration or resetMigration is one of
\* pending -> in_progress (start), in_progress -> completed (complete),
\* in_progress -> failed (fail), failed -> pending (reset); a call made in any
\* other status does not change the status.
C18_OnlyTheFourTransitions ==
  [][(/\ calls' = calls + 1
      /\ last'.op \in {"startMigration", "completeMigration", "failMigration",
                       "resetMigration"}
      /\ statusOf(storage') # statusOf(storage))
     => <<statusOf(storage), last'.op, statusOf(storage')>> \in MigrationTransitions]_vars

\* The fields of the record agree with its status
stateConsistent(record) ==
  /\ record.state.status = "completed" =>
       record.state.completedAt # Null /\ record.result # <<>>
  /\ record.state.status = "in_progress" => record.state.startedAt # Null
  /\ record.state.status = "failed" => record.state.lastError # <<>>
  /\ record.state.status = "pending" =>
       /\ record.state.startedAt = Null
       /\ record.state.completedAt = Null
       /\ record.state.lastError = <<>>
       /\ record.result = <<>>

\* C19: in every reachable state the fields of the migration status record
\* agree with its status: completed implies completedAt non-null and result
\* the value passed to the completeMigration call that completed it,
\* in_progress implies startedAt non-null, failed implies lastError non-null,
\* pending implies startedAt, completedAt, lastError and result all null.
C19_FieldsFollowStatus ==
  [][/\ getMigrationStatus(storage) # <<>> => stateConsistent(getMigrationStatus(storage)[1])
     /\ getMigrationStatus(storage') # <<>> => stateConsistent(getMigrationStatus(storage')[1])
     /\ statusOf(storage') = "completed" =>
          IF Called("completeMigration") /\ ~last'.threw
          THEN getMigrationStatus(storage')[1].result = <<last'.input>>
          ELSE /\ statusOf(storage) = "completed"
               /\ getMigrationStatus(storage')[1].result
                    = getMigrationStatus(storage)[1].result]_vars

\* A migration that was started has just been completed with a result
C19_Witness ==
  /\ last.op = "completeMigration"
  /\ ~last.threw
  /\ statusOf(storage) = "completed"
  /\ getMigrationStatus(storage)[1].state.startedAt # Null
  /\ getMigrationStatus(storage)[1].state.completedAt > getMigrationStatus(storage)[1].state.startedAt
  /\ getMigrationStatus(storage)[1].result = <<last.input>>
  /\ last.input.itemsMigrated = 2

\* C20: resetMigration(id) succeeds only when the stored record has that id
\* and status failed, and then sets status to pending and clears startedAt,
\* completedAt, lastError and result; in every other status (pending,
\* in_progress, completed) it throws and leaves the record unchanged.
C20_ResetOnlyFailed ==
  [][Called("resetMigration") =>
       IF /\ ~recordNotFound(storage, last'.itemId)
          /\ statusOf(storage) = "failed"
       THEN /\ ~last'.threw
            /\ getMigrationStatus(storage') =
                 <<[getMigrationStatus(storage)[1] EXCEPT
                      !.state = [status |-> "pending", startedAt |-> Null,
                                 completedAt |-> Null, lastError |-> <<>>],
                      !.result = <<>>]>>
            /\ \A k \in (DOMAIN storage) \ {"migration_status"} : storage'[k] = storage[k]
       ELSE last'.threw /\ storage' = storage]_vars

\* A failed migration that carried a start time and an error has just been reset
C20_Witness ==
  /\ last.op = "resetMigration"
  /\ ~last.threw
  /\ statusOf(storage) = "pending"
  /\ getMigrationStatus(storage)[1].migrationId = last.itemId
  /\ getMigrationStatus(storage)[1].state.startedAt = Null
  /\ clock > 1

----------------------------------------------------------------------------
\* Migration conflicts (lib/migration/conflicts): detection of the local items
\* that collide with remote items, and their resolution

\* String.prototype.trim on the texts of the model
trim(t) == IF t = " a" THEN "a" ELSE IF t = " A" THEN "A" ELSE t

\* item.text.toLowerCase().trim()
normalizedText(text) == trim(toLowerCase(text))

\* supabaseById.get(id): Map.set keeps the last remote item of an id
supabaseById(supabaseItems, id) ==
  LET found == {i \in 1..Len(supabaseItems) : supabaseItems[i].id = id}
  IN IF found = {} THEN <<>>
     ELSE <<supabaseItems[CHOOSE i \in found : \A j \in found : j <= i]>>

\* supabaseByText.get(text): the remote items of a normalized text, in order
supabaseByText(supabaseItems, text) ==
  SelectSeq(supabaseItems, LAMBDA item : normalizedText(item.text) = text)

\* A turn of the loop without its continue: a local item that matches by id
\* is looked up by text as well
conflictOf_noContinue(localItem, supabaseItems) ==
  LET cloudItemById == supabaseById(supabaseItems, localItem.id)
      cloudItemsByText == supabaseByText(supabaseItems, normalizedText(localItem.text))
  IN (IF cloudItemById # <<>>
      THEN <<[localItem |-> localItem, cloudItem |-> cloudItemById[1],
              conflictReason |-> "id_match"]>>
      ELSE <<>>)
     \o (IF cloudItemsByText # <<>>
         THEN <<[localItem |-> localItem,
                 cloudItem |-> sortByCreatedAt(cloudItemsByText)[1],
                 conflictReason |-> "text_match"]>>
         ELSE <<>>)

\* A turn of the loop that takes the first remote item of the text as stored
conflictOf_firstMatch(localItem, supabaseItems) ==
  LET cloudItemById == supabaseById(supabaseItems, localItem.id)
      cloudItemsByText == supabaseByText(supabaseItems, normalizedText(localItem.text))
  IN IF cloudItemById # <<>>
     THEN <<[localItem |-> localItem, cloudItem |-> cloudItemById[1],
             conflictReason |-> "id_match"]>>
     ELSE IF cloudItemsByText # <<>>
     THEN <<[localItem |-> localItem, cloudItem |-> cloudItemsByText[1],
             conflictReason |-> "text_match"]>>
     ELSE <<>>

\* One turn of the loop over the local items: the conflict pushed, if any
conflictOf(localItem, supabaseItems) ==
  LET cloudItemById == supabaseById(supabaseItems, localItem.id)
      cloudItemsByText == supabaseByText(supabaseItems, normalizedText(localItem.text))
  IN IF cloudItemById # <<>>
     THEN <<[localItem |-> localItem, cloudItem |-> cloudItemById[1],
             conflictReason |-> "id_match"]>>
     ELSE IF cloudItemsByText # <<>>
     THEN <<[localItem |-> localItem,
             cloudItem |-> sortByCreatedAt(cloudItemsByText)[1],
             conflictReason |-> "text_match"]>>
     ELSE <<>>

RECURSIVE conflictsOf(_, _)
conflictsOf(localItems, supabaseItems) ==
  IF localItems = <<>> THEN <<>>
  ELSE conflictsOf(SubSeq(localItems, 1, Len(localItems) - 1), supabaseItems)
       \o conflictOf(localItems[Len(localItems)], supabaseItems)

detectConflicts(localItems, supabaseItems) ==
  LET conflicts == conflictsOf(localItems, supabaseItems)
  IN [conflicts |-> conflicts,
      totalConflicts |-> Len(conflicts),
      requiresResolution |-> Len(conflicts) > 0]

\* keep_newest that gives a tie to the local item
resolveConflict_tiesLocal(conflict, strategy) ==
  IF strategy = "keep_local" THEN <<conflict.localItem>>
  ELSE IF strategy = "keep_cloud" THEN <<>>
  ELSE IF strategy = "keep_both"
  THEN IF conflict.conflictReason = "id_match"
       THEN <<conflict.cloudItem, conflict.localItem>>
       ELSE <<conflict.localItem>>
  ELSE IF strategy = "keep_newest"
  THEN IF conflict.localItem.updated_at >= conflict.cloudItem.updated_at
       THEN <<conflict.localItem>>
       ELSE <<>>
  ELSE <<>>

resolveConflict(conflict, strategy) ==
  IF strategy = "keep_local" THEN <<conflict.localItem>>
  ELSE IF strategy = "keep_cloud" THEN <<>>
  ELSE IF strategy = "keep_both"
  THEN IF conflict.conflictReason = "id_match"
       THEN <<conflict.cloudItem, conflict.localItem>>
       ELSE <<conflict.localItem>>
  ELSE IF strategy = "keep_newest"
  THEN IF conflict.localItem.updated_at > conflict.cloudItem.updated_at
       THEN <<conflict.localItem>>
       ELSE <<>>
  ELSE <<>>

RECURSIVE resolveEach(_, _)
resolveEach(conflicts, strategy) ==
  IF conflicts = <<>> THEN <<>>
  ELSE resolveEach(SubSeq(conflicts, 1, Len(conflicts) - 1), strategy)
       \o resolveConflict(conflicts[Len(conflicts)], strategy)

\* resolveAllConflicts that puts each resolution in front of the earlier ones
resolveAllConflicts_reversed(conflicts, strategy) ==
  LET RECURSIVE unshiftEach(_)
      unshiftEach(cs) ==
        IF cs = <<>> THEN <<>>
        ELSE resolveConflict(cs[Len(cs)], strategy)
             \o unshiftEach(SubSeq(cs, 1, Len(cs) - 1))
  IN IF strategy = "manual_review"
     THEN [resolvedItems |-> <<>>, unresolvedConflicts |-> conflicts]
     ELSE [resolvedItems |-> unshiftEach(conflicts), unresolvedConflicts |-> <<>>]

resolveAllConflicts(conflicts, strategy) ==
  IF strategy = "manual_review"
  THEN [resolvedItems |-> <<>>, unresolvedConflicts |-> conflicts]
  ELSE [resolvedItems |-> resolveEach(conflicts, strategy),
        unresolvedConflicts |-> <<>>]

filterNonConflictingItems(localItems, conflicts) ==
  LET conflictedIds == {conflicts[i].localItem.id : i \in 1..Len(conflicts)}
  IN SelectSeq(localItems, LAMBDA item : item.id \notin conflictedIds)

\* An ItemRow of the given identity, text and timestamps
itemRowOf(id, text, created_at, updated_at) ==
  [id |-> id, user_id |-> Null, text |-> text, type |-> "step",
   parent_id |-> Null, position |-> 0, completed |-> FALSE,
   completed_at |-> Null, points |-> 5, deleted_at |-> Null,
   created_at |-> created_at, updated_at |-> updated_at]

\* The sequences of at most two rows, of distinct ids, drawn from a set
RowLists(rows) ==
  {<<>>} \cup {<<r>> : r \in rows}
         \cup {pair \in rows \X rows : pair[1].id # pair[2].id}

InitConflicts ==
  /\ storage \in { [items |-> localItems, achievements |-> Missing,
                      daily_points |-> Missing, user |-> Missing,
                      migration_status |-> <<>>, quota |-> NoQuota] :
                     \* What the items bucket of the device holds: ids 1 and 2
                     localItems \in RowLists({itemRowOf(id, text, 1, u) : id \in 1..2, text \in {"a", " A", "b"}, u \in 1..MaxTime}) }
  /\ clock = MaxTime
  /\ uuid = 2
  /\ calls = 0
  /\ last = [op |-> "init", supabaseItems |-> <<>>,
             detection |-> [conflicts |-> <<>>, totalConflicts |-> 0,
                            requiresResolution |-> FALSE],
             strategy |-> "", conflict |-> <<>>, ret |-> <<>>]

\* detectConflicts(getItems(), supabaseItems)
DetectConflicts ==
  /\ last.op = "init"
  \* What the remote table holds: the id 1, shared with the device, and the id 3
  /\ \E supabaseItems \in RowLists({itemRowOf(id, text, c, u) : id \in {1, 3}, text \in {"a", " A", "b"}, c \in 1..MaxTime, u \in 1..MaxTime}) :
       last' = [last EXCEPT !.op = "detectConflicts",
                            !.supabaseItems = supabaseItems,
                            !.detection = detectConflicts(getItems(storage), supabaseItems)]
  /\ calls' = calls + 1
  /\ UNCHANGED <<storage, clock, uuid>>

\* filterNonConflictingItems(getItems(), detection.conflicts)
FilterNonConflictingItems ==
  /\ last.op = "detectConflicts"
  /\ last' = [last EXCEPT !.op = "filterNonConflictingItems",
                          !.ret = filterNonConflictingItems(getItems(storage),
                                                            last.detection.conflicts)]
  /\ calls' = calls + 1
  /\ UNCHANGED <<storage, clock, uuid>>

\* resolveConflict(conflict, strategy) on one of the detected conflicts
ResolveConflict ==
  /\ last.op = "detectConflicts"
  /\ \E i \in 1..Len(last.detection.conflicts), strategy \in {"keep_local", "keep_cloud", "keep_both", "keep_newest", "manual_review"} :
       last' = [last EXCEPT !.op = "resolveConflict",
                            !.strategy = strategy,
                            !.conflict = <<last.detection.conflicts[i]>>,
                            !.ret = resolveConflict(last.detection.conflicts[i], strategy)]
  /\ calls' = calls + 1
  /\ UNCHANGED <<storage, clock, uuid>>

\* resolveAllConflicts(detection.conflicts, strategy)
ResolveAllConflicts ==
  /\ last.op = "detectConflicts"
  /\ \E strategy \in {"keep_local", "keep_cloud", "keep_both", "keep_newest", "manual_review"} :
       last' = [last EXCEPT !.op = "resolveAllConflicts",
                            !.strategy = strategy,
                            !.ret = resolveAllConflicts(last.detection.conflicts, strategy)]
  /\ calls' = calls + 1
  /\ UNCHANGED <<storage, clock, uuid>>

NextConflicts ==
  \/ DetectConflicts
  \/ FilterNonConflictingItems
  \/ ResolveConflict
  \/ ResolveAllConflicts

SpecConflicts == InitConflicts /\ [][NextConflicts]_vars

----------------------------------------------------------------------------
\* Claims on conflict detection and resolution

\* The remote items a local item collides with by id, and by normalized text
sameId(localItem, supabaseItems) ==
  {r \in rowsOf(supabaseItems) : r.id = localItem.id}

sameText(localItem, supabaseItems) ==
  {r \in rowsOf(supabaseItems) : normalizedText(r.text) = normalizedText(localItem.text)}

conflictsOn(localItem) ==
  {i \in 1..Len(last.detection.conflicts) :
     last.detection.conflicts[i].localItem = localItem}

\* C21: detectConflicts reports each local item in at most one conflict, an id
\* match taking precedence over a text match, and reports it exactly when a
\* remote item has its id or its normalized text; filterNonConflictingItems
\* returns, in order, exactly the local items that are in no conflict, so the
\* conflicting and the non-conflicting items partition the local items
C21_ConflictsPartitionLocalItems ==
  LET localItems == getItems(storage)
      conflicts == last.detection.conflicts
  IN /\ last.op # "init" =>
          /\ \A i \in 1..Len(conflicts) : conflicts[i].localItem \in rowsOf(localItems)
          /\ \A localItem \in rowsOf(localItems) :
               /\ Cardinality(conflictsOn(localItem)) <= 1
               /\ conflictsOn(localItem) # {} <=>
                    sameId(localItem, last.supabaseItems)
                      \cup sameText(localItem, last.supabaseItems) # {}
               /\ \A i \in conflictsOn(localItem) :
                    IF sameId(localItem, last.supabaseItems) # {}
                    THEN /\ conflicts[i].conflictReason = "id_match"
                         /\ conflicts[i].cloudItem \in sameId(localItem, last.supabaseItems)
                    ELSE /\ conflicts[i].conflictReason = "text_match"
                         /\ conflicts[i].cloudItem \in sameText(localItem, last.supabaseItems)
     /\ last.op = "filterNonConflictingItems" =>
          /\ last.ret = SelectSeq(localItems, LAMBDA item : conflictsOn(item) = {})
          /\ Len(last.ret) + Len(conflicts) = Len(localItems)
          /\ rowsOf(last.ret) \cap {conflicts[i].localItem : i \in 1..Len(conflicts)} = {}

\* A local item that matches one remote item by id and another by text is
\* reported once, next to a local item that is in no conflict
C21_Witness ==
  /\ last.op = "filterNonConflictingItems"
  /\ Len(last.ret) = 1
  /\ Len(last.detection.conflicts) = 1
  /\ LET localItem == last.detection.conflicts[1].localItem
     IN /\ sameId(localItem, last.supabaseItems) # {}
        /\ sameText(localItem, last.supabaseItems)
             \ sameId(localItem, last.supabaseItems) # {}
        /\ \E r \in sameText(localItem, last.supabaseItems) : r.text # localItem.text

\* C22: resolveConflict(conflict, 'keep_newest') returns the local item exactly
\* when its updated_at is strictly later than the remote updated_at and
\* nothing otherwise, a tie included; the result never holds the remote item
C22_KeepNewestTiesFavourRemote ==
  (last.op = "resolveConflict" /\ last.strategy = "keep_newest") =>
    LET conflict == last.conflict[1]
    IN /\ last.ret = <<conflict.localItem>> <=>
            conflict.localItem.updated_at > conflict.cloudItem.updated_at
       /\ last.ret # <<conflict.localItem>> => last.ret = <<>>
       /\ conflict.cloudItem \notin rowsOf(last.ret)

\* keep_newest on a conflict whose two versions carry the same updated_at
C22_Witness ==
  /\ last.op = "resolveConflict"
  /\ last.strategy = "keep_newest"
  /\ last.conflict[1].localItem.updated_at = last.conflict[1].cloudItem.updated_at
  /\ last.conflict[1].localItem.text # last.conflict[1].cloudItem.text
  /\ last.ret = <<>>

\* C23: under keep_both an id collision is resolved into both versions, the
\* local one under a new id, so that no two resolved items share an id; a
\* text match keeps the local item under its own id
C23_KeepBothGivesDistinctIds ==
  /\ (last.op = "resolveConflict" /\ last.strategy = "keep_both") =>
       LET conflict == last.conflict[1]
       IN IF conflict.conflictReason = "id_match"
          THEN /\ Len(last.ret) = 2
               /\ conflict.cloudItem \in rowsOf(last.ret)
               /\ last.ret[1].id # last.ret[2].id
          ELSE last.ret = <<conflict.localItem>>
  /\ (last.op = "resolveAllConflicts" /\ last.strategy = "keep_both") =>
       \A i, j \in 1..Len(last.ret.resolvedItems) :
         last.ret.resolvedItems[i].id = last.ret.resolvedItems[j].id => i = j

\* The number of items the conflicts before the i-th resolve into
RECURSIVE resolvedBefore(_, _, _)
resolvedBefore(conflicts, strategy, i) ==
  IF i = 1 THEN 0
  ELSE resolvedBefore(conflicts, strategy, i - 1)
       + Len(resolveConflict(conflicts[i - 1], strategy))

\* C24: resolveAllConflicts applies one strategy to the batch: manual_review
\* resolves nothing and returns every conflict, in order, as unresolved; any
\* other strategy leaves nothing unresolved and returns the concatenation, in
\* conflict order, of resolveConflict applied to each conflict
C24_ResolveAllIsUniform ==
  last.op = "resolveAllConflicts" =>
    LET conflicts == last.detection.conflicts
        resolvedItems == last.ret.resolvedItems
    IN IF last.strategy = "manual_review"
       THEN /\ resolvedItems = <<>>
            /\ last.ret.unresolvedConflicts = conflicts
       ELSE /\ last.ret.unresolvedConflicts = <<>>
            /\ Len(resolvedItems)
                 = resolvedBefore(conflicts, last.strategy, Len(conflicts) + 1)
            /\ \A i \in 1..Len(conflicts) :
                 LET part == resolveConflict(conflicts[i], last.strategy)
                     before == resolvedBefore(conflicts, last.strategy, i)
                 IN \A k \in 1..Len(part) : resolvedItems[before + k] = part[k]

\* keep_both on an id collision followed by a text match: three resolved items
C24_Witness ==
  /\ last.op = "resolveAllConflicts"
  /\ last.strategy = "keep_both"
  /\ Len(last.detection.conflicts) = 2
  /\ last.detection.conflicts[1].conflictReason = "id_match"
  /\ last.detection.conflicts[2].conflictReason = "text_match"
  /\ Len(last.ret.resolvedItems) = 3
  /\ last.ret.unresolvedConflicts = <<>>

----------------------------------------------------------------------------
\* Migration export (lib/migration/export.ts): the snapshot of the buckets,
\* its validation, the remap of the owner and the two preservation checks

\* Bound on the rows of a bucket that is exported
MaxExported == 2

\* An entry of an errors array: the message and the values it is built from
errorOf(message, at, expected, got) ==
  [error |-> message, at |-> at, expected |-> expected, got |-> got]

exportLocalStorageToJSON(st, now) ==
  LET items == getItems(st)
      achievements == getAchievements(st)
      dailyPoints == getDailyPoints(st)
      user == getUser(st, now)
  IN [version |-> 1,
      exportedAt |-> now,
      items |-> items,
      achievements |-> achievements,
      dailyPoints |-> dailyPoints,
      user |-> user,
      counts |-> [items |-> Len(items),
                  achievements |-> Len(achievements),
                  dailyPoints |-> Len(dailyPoints)]]

\* validateExportData that compares no count with its array
validateExportData_noCounts(data) ==
  LET errors ==
        (IF data.version = 0 THEN <<errorOf("Missing version field", Null, 0, 0)>>
         ELSE <<>>)
        \o (IF data.exportedAt = Null
            THEN <<errorOf("Missing exportedAt field", Null, 0, 0)>>
            ELSE <<>>)
  IN [valid |-> errors = <<>>, errors |-> errors]

\* validateExportData on an object whose items, achievements and dailyPoints
\* are arrays and whose user and counts are objects
validateExportData(data) ==
  LET errors ==
        (IF data.version = 0 THEN <<errorOf("Missing version field", Null, 0, 0)>>
         ELSE <<>>)
        \o (IF data.exportedAt = Null
            THEN <<errorOf("Missing exportedAt field", Null, 0, 0)>>
            ELSE <<>>)
        \o (IF data.counts.items # Len(data.items)
            THEN <<errorOf("Items count mismatch", Null,
                           data.counts.items, Len(data.items))>>
            ELSE <<>>)
        \o (IF data.counts.achievements # Len(data.achievements)
            THEN <<errorOf("Achievements count mismatch", Null,
                           data.counts.achievements, Len(data.achievements))>>
            ELSE <<>>)
        \o (IF data.counts.dailyPoints # Len(data.dailyPoints)
            THEN <<errorOf("Daily points count mismatch", Null,
                           data.counts.dailyPoints, Len(data.dailyPoints))>>
            ELSE <<>>)
  IN [valid |-> errors = <<>>, errors |-> errors]

\* rows.map(row => ({...row, user_id: supabaseUserId}))
withUserId(rows, supabaseUserId) ==
  [i \in 1..Len(rows) |-> [rows[i] EXCEPT !.user_id = supabaseUserId]]

\* mapLocalUserToAuthUser that hands out the rows in reverse order
mapLocalUserToAuthUser_reversed(localData, supabaseUserId) ==
  LET reversed(rows) == [i \in 1..Len(rows) |-> rows[Len(rows) + 1 - i]]
  IN [items |-> reversed(withUserId(localData.items, supabaseUserId)),
      achievements |-> reversed(withUserId(localData.achievements, supabaseUserId)),
      dailyPoints |-> reversed(withUserId(localData.dailyPoints, supabaseUserId))]

mapLocalUserToAuthUser(localData, supabaseUserId) ==
  [items |-> withUserId(localData.items, supabaseUserId),
   achievements |-> withUserId(localData.achievements, supabaseUserId),
   dailyPoints |-> withUserId(localData.dailyPoints, supabaseUserId)]

\* The errors of one array in validateUUIDPreservation
RECURSIVE uuidMismatches(_, _, _, _)
uuidMismatches(original, mapped, message, n) ==
  IF n = 0 THEN <<>>
  ELSE uuidMismatches(original, mapped, message, n - 1)
       \o (IF original[n].id # mapped[n].id
           THEN <<errorOf(message, n - 1, original[n].id, mapped[n].id)>>
           ELSE <<>>)

uuidErrors(original, mapped, countMessage, message) ==
  IF Len(original) # Len(mapped)
  THEN <<errorOf(countMessage, Null, Len(original), Len(mapped))>>
  ELSE uuidMismatches(original, mapped, message, Len(original))

validateUUIDPreservation(original, mapped) ==
  LET errors ==
        uuidErrors(original.items, mapped.items,
                   "Items count mismatch", "Item UUID mismatch at index")
        \o uuidErrors(original.achievements, mapped.achievements,
                      "Achievements count mismatch", "Achievement UUID mismatch at index")
        \o uuidErrors(original.dailyPoints, mapped.dailyPoints,
                      "Daily points count mismatch", "Daily points UUID mismatch at index")
  IN [valid |-> errors = <<>>, errors |-> errors, threw |-> FALSE]

\* The errors of one pair of records: one for each of the fields that differs
RECURSIVE fieldMismatches(_, _, _, _)
fieldMismatches(orig, mapped, entity, fields) ==
  IF fields = <<>> THEN <<>>
  ELSE fieldMismatches(orig, mapped, entity, SubSeq(fields, 1, Len(fields) - 1))
       \o (LET field == fields[Len(fields)]
           IN IF orig[field] # mapped[field]
              THEN <<errorOf(entity, orig.id, field, "mismatch")>>
              ELSE <<>>)

\* The errors of one array in validateTimestampPreservation
RECURSIVE timestampMismatches(_, _, _, _, _)
timestampMismatches(original, mapped, entity, fields, n) ==
  IF n = 0 THEN <<>>
  ELSE timestampMismatches(original, mapped, entity, fields, n - 1)
       \o fieldMismatches(original[n], mapped[n], entity, fields)

\* validateTimestampPreservation: mapped[i] of a shorter mapped array is
\* undefined and reading its field is a TypeError
validateTimestampPreservation(original, mapped) ==
  IF \/ Len(mapped.items) < Len(original.items)
     \/ Len(mapped.achievements) < Len(original.achievements)
     \/ Len(mapped.dailyPoints) < Len(original.dailyPoints)
  THEN [valid |-> FALSE, errors |-> <<>>, threw |-> TRUE]
  ELSE
    LET errors ==
          timestampMismatches(original.items, mapped.items, "Item",
                              <<"created_at", "updated_at", "completed_at">>,
                              Len(original.items))
          \o timestampMismatches(original.achievements, mapped.achievements,
                                 "Achievement", <<"achieved_at", "created_at">>,
                                 Len(original.achievements))
          \o timestampMismatches(original.dailyPoints, mapped.dailyPoints,
                                 "Daily points", <<"date", "created_at">>,
                                 Len(original.dailyPoints))
    IN [valid |-> errors = <<>>, errors |-> errors, threw |-> FALSE]

\* The item rows a bucket may hold: completed or not, deleted or not
ExportedItemRows ==
  { [itemRowOf(id, "a", 1, MaxTime) EXCEPT !.completed = (c # Null),
                                           !.completed_at = c,
                                           !.deleted_at = d] :
      id \in 1..MaxExported, c \in {Null, 1}, d \in {Null, MaxTime} }

\* What a key may hold: nothing, unparseable text, or at most MaxExported rows
BucketsOf(rows) ==
  {Missing, Malformed}
  \cup UNION { { bucket \in [1..n -> rows] : \A i \in 1..n : bucket[i].id = i } :
               n \in 0..MaxExported }

InitExport ==
  /\ storage \in { [items |-> items, achievements |-> achievements,
                      daily_points |-> dailyPoints, user |-> user,
                      migration_status |-> <<>>, quota |-> NoQuota] :
                     items \in BucketsOf(ExportedItemRows),
                     achievements \in BucketsOf({ [id |-> id, user_id |-> Null, item_id |-> 1, points_earned |-> 5, achieved_at |-> MaxTime, created_at |-> MaxTime] : id \in 1..MaxExported }),
                     dailyPoints \in BucketsOf({ [id |-> id, user_id |-> Null, date |-> id, baseline_points |-> 10, created_at |-> 1] : id \in 1..MaxExported }),
                     user \in {Missing, Malformed, <<createDefaultUser(1)>>} }
  /\ clock = MaxTime
  /\ uuid = MaxExported
  /\ calls = 0
  /\ last = [op |-> "init", exportData |-> <<>>, input |-> <<>>, validation |-> <<>>,
             supabaseUserId |-> Null, mapped |-> <<>>, checked |-> <<>>,
             uuids |-> <<>>, timestamps |-> <<>>]

\* The export with one of its three arrays cut short, the counts left alone
truncations(data) ==
  UNION { { [data EXCEPT ![key] = SubSeq(@, 1, n)] : n \in 0..(Len(data[key]) - 1) } :
          key \in {"items", "achievements", "dailyPoints"} }

\* A value other than v that the field may carry
otherThan(field, v) ==
  IF field = "id" THEN v + MaxExported
  ELSE IF v = Null THEN 1
  ELSE (v % MaxTime) + 1

\* The mapped data after a drift: one id or timestamp of one record changed,
\* or the last record of one array lost
drifts(mapped) ==
  UNION { { [mapped EXCEPT ![key][i][field] = otherThan(field, @)] :
              i \in 1..Len(mapped[key]),
              field \in IF key = "items"
                        THEN {"id", "created_at", "updated_at", "completed_at",
                              "deleted_at"}
                        ELSE IF key = "achievements"
                        THEN {"id", "achieved_at", "created_at"}
                        ELSE {"id", "date", "created_at"} }
          \cup (IF mapped[key] = <<>> THEN {}
                ELSE {[mapped EXCEPT ![key] = SubSeq(@, 1, Len(@) - 1)]}) :
          key \in {"items", "achievements", "dailyPoints"} }

ExportLocalStorageToJSON ==
  /\ last.op = "init"
  /\ last' = [last EXCEPT !.op = "exportLocalStorageToJSON",
                          !.exportData = <<exportLocalStorageToJSON(storage, clock)>>]
  /\ calls' = calls + 1
  /\ UNCHANGED <<storage, clock, uuid>>

\* validateExportData on the export, whole or truncated
ValidateExportData ==
  /\ last.op = "exportLocalStorageToJSON"
  /\ \E data \in {last.exportData[1]} \cup truncations(last.exportData[1]) :
       last' = [last EXCEPT !.op = "validateExportData",
                            !.input = <<data>>,
                            !.validation = <<validateExportData(data)>>]
  /\ calls' = calls + 1
  /\ UNCHANGED <<storage, clock, uuid>>

MapLocalUserToAuthUser ==
  /\ last.op \in {"exportLocalStorageToJSON", "validateExportData"}
  /\ \E supabaseUserId \in {9} :
       last' = [last EXCEPT !.op = "mapLocalUserToAuthUser",
                            !.supabaseUserId = supabaseUserId,
                            !.mapped = <<mapLocalUserToAuthUser(last.exportData[1],
                                                                supabaseUserId)>>]
  /\ calls' = calls + 1
  /\ UNCHANGED <<storage, clock, uuid>>

\* The data a preservation check is given: what the other check was given, or
\* else the mapped data, as returned or after a drift
CheckedInputs ==
  IF last.checked # <<>> THEN {last.checked[1]}
  ELSE {last.mapped[1]} \cup drifts(last.mapped[1])

ValidateUUIDPreservation ==
  /\ last.mapped # <<>>
  /\ last.uuids = <<>>
  /\ \E mapped \in CheckedInputs :
       last' = [last EXCEPT !.op = "validateUUIDPreservation",
                            !.checked = <<mapped>>,
                            !.uuids = <<validateUUIDPreservation(last.exportData[1], mapped)>>]
  /\ calls' = calls + 1
  /\ UNCHANGED <<storage, clock, uuid>>

ValidateTimestampPreservation ==
  /\ last.mapped # <<>>
  /\ last.timestamps = <<>>
  /\ \E mapped \in CheckedInputs :
       last' = [last EXCEPT !.op = "validateTimestampPreservation",
                            !.checked = <<mapped>>,
                            !.timestamps =
                               <<validateTimestampPreservation(last.exportData[1], mapped)>>]
  /\ calls' = calls + 1
  /\ UNCHANGED <<storage, clock, uuid>>

NextExport ==
  \/ ExportLocalStorageToJSON
  \/ ValidateExportData
  \/ MapLocalUserToAuthUser
  \/ ValidateUUIDPreservation
  \/ ValidateTimestampPreservation

SpecExport == InitExport /\ [][NextExport]_vars

----------------------------------------------------------------------------
\* Claims on the export, its validation and the remap

ExportKeys == {"items", "achievements", "dailyPoints"}

\* The fields of a row that the remap has to preserve
PreservedFields ==
  [items |-> {"id", "created_at", "updated_at", "completed_at", "deleted_at"},
   achievements |-> {"id", "achieved_at", "created_at"},
   dailyPoints |-> {"id", "date", "created_at"}]

\* C25: mapLocalUserToAuthUser(E, u) returns items, achievements and daily
\* points of the length and order of E, each row with user_id = u and with its
\* id and every timestamp as in E, and both preservation checks of (E, mapped)
\* report valid with no errors
C25_RemapPreservesIdsAndTimestamps ==
  last.mapped # <<>> =>
    LET original == last.exportData[1]
        mapped == last.mapped[1]
    IN /\ \A key \in ExportKeys :
            /\ Len(mapped[key]) = Len(original[key])
            /\ \A i \in 1..Len(original[key]) :
                 /\ mapped[key][i].user_id = last.supabaseUserId
                 /\ \A field \in PreservedFields[key] :
                      mapped[key][i][field] = original[key][i][field]
       /\ (last.uuids # <<>> /\ last.checked = last.mapped) =>
            last.uuids[1] = [valid |-> TRUE, errors |-> <<>>, threw |-> FALSE]
       /\ (last.timestamps # <<>> /\ last.checked = last.mapped) =>
            last.timestamps[1] = [valid |-> TRUE, errors |-> <<>>, threw |-> FALSE]

\* Both checks have passed the remap of two items, one of them deleted, two
\* achievements and two baselines
C25_Witness ==
  /\ last.uuids # <<>>
  /\ last.timestamps # <<>>
  /\ last.checked = last.mapped
  /\ Len(last.mapped[1].items) = 2
  /\ Len(last.mapped[1].achievements) = 2
  /\ Len(last.mapped[1].dailyPoints) = 2
  /\ last.mapped[1].items[1].deleted_at # Null
  /\ last.mapped[1].items[1].user_id # last.exportData[1].items[1].user_id
  /\ last.uuids[1].valid
  /\ last.timestamps[1].valid

\* The records of the original whose id or timestamps the checked data changed
\* or lost
drifted(key) ==
  {i \in 1..Len(last.exportData[1][key]) :
     \/ i > Len(last.checked[1][key])
     \/ \E field \in PreservedFields[key] :
          last.checked[1][key][i][field] # last.exportData[1][key][i][field]}

\* C26: whenever an id or a timestamp of a record (for items: created_at,
\* updated_at, completed_at, deleted_at) differs between the export and the
\* mapped data, or a mapped array is shorter, validateUUIDPreservation or
\* validateTimestampPreservation returns valid = false
C26_EveryDriftIsDetected ==
  (/\ last.uuids # <<>>
   /\ last.timestamps # <<>>
   /\ \E key \in ExportKeys : drifted(key) # {}) =>
    \/ ~last.uuids[1].valid /\ last.uuids[1].errors # <<>>
    \/ ~last.timestamps[1].valid /\ last.timestamps[1].errors # <<>>

\* C27: validateExportData of what exportLocalStorageToJSON returns is valid
\* with no errors, whatever the buckets hold; of an export with one array cut
\* short and the counts unchanged it is invalid with exactly the
\* count-mismatch error of that array
C27_ExportValidatesAndTruncationIsNamed ==
  last.validation # <<>> =>
    LET data == last.input[1]
        mismatch(key, message) ==
          IF Len(data[key]) # data.counts[key]
          THEN <<errorOf(message, Null, data.counts[key], Len(data[key]))>>
          ELSE <<>>
    IN IF data = last.exportData[1]
       THEN last.validation[1] = [valid |-> TRUE, errors |-> <<>>]
       ELSE /\ ~last.validation[1].valid
            /\ last.validation[1].errors =
                 mismatch("items", "Items count mismatch")
                 \o mismatch("achievements", "Achievements count mismatch")
                 \o mismatch("dailyPoints", "Daily points count mismatch")
            /\ Len(last.validation[1].errors) = 1

\* The export of a store whose items key holds unparseable text, validated
\* after its achievements were cut from two to one
C27_Witness ==
  /\ last.op = "validateExportData"
  /\ storage.items = Malformed
  /\ last.exportData[1].items = <<>>
  /\ last.exportData[1].counts.achievements = 2
  /\ Len(last.input[1].achievements) = 1
  /\ ~last.validation[1].valid
  /\ last.validation[1].errors[1].error = "Achievements count mismatch"

----------------------------------------------------------------------------
\* Two tabs on one store: each tab reads an item and later updates it from
\* what it read, every call running to its end before the next starts

Tabs == {"A", "B"}

InitTabs ==
  /\ storage \in { [items |-> <<row>>, achievements |-> Missing,
                      daily_points |-> Missing, user |-> Missing,
                      migration_status |-> <<>>, quota |-> NoQuota] :
                     \* The item the tabs work on, as createItem left it or completed since
                     row \in { [itemRowOf(1, "a", 1, 1) EXCEPT !.completed = (c # Null), !.completed_at = c] : c \in {Null, 1} } }
  /\ clock = 1
  /\ uuid = 1
  /\ calls = 0
  /\ last = [op |-> "init", original |-> getItemById(storage, 1),
             read |-> [tab \in Tabs |-> <<>>], updates |-> <<>>]

\* const tab_item = getItemById(item.id)
TabReads ==
  /\ \E tab \in Tabs :
       /\ last.read[tab] = <<>>
       /\ last' = [last EXCEPT !.op = "getItemById",
                               !.read[tab] = getItemById(storage, 1)]
  /\ calls' = calls + 1
  /\ UNCHANGED <<storage, clock, uuid>>

\* updateItem(tab_item.id, patch) by a tab that has read the item and has not
\* updated it yet
TabUpdates ==
  \* The patches of a tab; the last one is rejected by the schema
  /\ \E tab \in Tabs, patch \in { [points |-> 50], [text |-> "b"], [text |-> "A", points |-> 7], [completed |-> TRUE], [completed |-> FALSE], [points |-> 0 - 1] } :
       /\ last.read[tab] # <<>>
       /\ \A i \in 1..Len(last.updates) : last.updates[i].tab # tab
       /\ LET r == updateItem(storage, last.read[tab][1].id, patch, clock)
          IN /\ storage' = r.storage
             /\ last' = [last EXCEPT !.op = "updateItem",
                                     !.updates = Append(@, [tab |-> tab, patch |-> patch,
                                                            ret |-> r.ret,
                                                            threw |-> r.threw])]
  /\ calls' = calls + 1
  /\ UNCHANGED <<clock, uuid>>

NextTabs ==
  \/ Tick
  \/ TabReads
  \/ TabUpdates

SpecTabs == InitTabs /\ [][NextTabs]_vars

\* The fields a patch sets once the schema has parsed it: none if it throws
fieldsOf(patch) ==
  IF itemUpdateSchema(patch) = <<>> THEN {} ELSE DOMAIN itemUpdateSchema(patch)[1]

\* C28: after two tabs have each updated the same item, one call after the
\* other, the item holds in every field the value of the last call whose patch
\* contained the field, and otherwise the value it had before; a field that
\* only the earlier call changed keeps that value, whenever the later tab had
\* read the item
C28_LastPatchWinsPerField ==
  Len(last.updates) = 2 =>
    LET final == getItemById(storage, 1)[1]
        earlier == last.updates[1]
        later == last.updates[2]
    IN \A field \in ItemUpdateKeys :
         final[field] = IF field \in fieldsOf(later.patch) THEN later.patch[field]
                        ELSE IF field \in fieldsOf(earlier.patch) THEN earlier.patch[field]
                        ELSE last.original[1][field]

\* Tab A read the item before tab B set its points; tab A then set the text
C28_Witness ==
  /\ Len(last.updates) = 2
  /\ last.updates[1].tab = "B"
  /\ last.updates[1].patch = [points |-> 50]
  /\ last.updates[2].tab = "A"
  /\ last.updates[2].patch = [text |-> "b"]
  /\ last.read["A"] = last.original
  /\ last.read["A"][1].points # 50
  /\ getItemById(storage, 1)[1].points = 50
  /\ getItemById(storage, 1)[1].text = "b"

----------------------------------------------------------------------------
\* Reads of the four buckets from any content of their keys

\* Each key holds nothing, unparseable text, or what set* wrote
InitStorage ==
  /\ storage \in { [items |-> items, achievements |-> achievements,
                      daily_points |-> dailyPoints, user |-> user,
                      migration_status |-> <<>>, quota |-> NoQuota] :
                     items \in {Missing, Malformed, <<>>, <<itemRowOf(1, "a", 1, 1)>>},
                     achievements \in
                       {Missing, Malformed,
                        <<[id |-> 1, user_id |-> Null, item_id |-> 1,
                           points_earned |-> 5, achieved_at |-> 1, created_at |-> 1]>>},
                     dailyPoints \in
                       {Missing, Malformed,
                        <<[id |-> 1, user_id |-> Null, date |-> 1,
                           baseline_points |-> 10, created_at |-> 1]>>},
                     user \in
                       {Missing, Malformed,
                        <<[createDefaultUser(1) EXCEPT !.id = "stored-user"]>>} }
  /\ clock = 1
  /\ uuid = 1
  /\ calls = 0
  /\ last = [op |-> "init", ret |-> <<>>, threw |-> FALSE]

\* A getter returns from its try block or from its catch block; it calls no
\* setItem and no removeItem
GetItems ==
  /\ calls < MaxCalls
  /\ last' = [op |-> "getItems", ret |-> getItems(storage), threw |-> FALSE]
  /\ calls' = calls + 1
  /\ UNCHANGED <<storage, clock, uuid>>

GetAchievements ==
  /\ calls < MaxCalls
  /\ last' = [op |-> "getAchievements", ret |-> getAchievements(storage), threw |-> FALSE]
  /\ calls' = calls + 1
  /\ UNCHANGED <<storage, clock, uuid>>

GetDailyPoints ==
  /\ calls < MaxCalls
  /\ last' = [op |-> "getDailyPoints", ret |-> getDailyPoints(storage), threw |-> FALSE]
  /\ calls' = calls + 1
  /\ UNCHANGED <<storage, clock, uuid>>

GetUser ==
  /\ calls < MaxCalls
  /\ last' = [op |-> "getUser", ret |-> <<getUser(storage, clock)>>, threw |-> FALSE]
  /\ calls' = calls + 1
  /\ UNCHANGED <<storage, clock, uuid>>

NextStorage ==
  \/ Tick
  \/ GetItems
  \/ GetAchievements
  \/ GetDailyPoints
  \/ GetUser

SpecStorage == InitStorage /\ [][NextStorage]_vars

\* The key a getter reads
keyOf(op) ==
  IF op = "getItems" THEN "items"
  ELSE IF op = "getAchievements" THEN "achievements"
  ELSE IF op = "getDailyPoints" THEN "daily_points"
  ELSE "user"

\* C29: a read of a bucket whose key is missing or holds malformed JSON does
\* not throw and writes nothing: getItems, getAchievements and getDailyPoints
\* return the empty array and getUser returns the default local user
C29_ReadsOfMissingOrMalformedAreEmpty ==
  [][ (/\ calls' = calls + 1
       /\ storage[keyOf(last'.op)] \in {Missing, Malformed}) =>
        /\ ~last'.threw
        /\ storage' = storage
        /\ last'.ret = IF last'.op = "getUser"
                       THEN <<[id |-> "local-user", email |-> Null,
                               display_name |-> Null, preferences |-> <<>>,
                               created_at |-> clock, updated_at |-> clock]>>
                       ELSE <<>> ]_vars

\* getUser has returned the default user from unparseable text, next to an
\* items key that holds unparseable text too
C29_Witness ==
  /\ last.op = "getUser"
  /\ storage.user = Malformed
  /\ storage.items = Malformed
  /\ storage.achievements = Missing
  /\ last.ret[1].id = "local-user"
  /\ clock > 1

----------------------------------------------------------------------------
\* The item repository on a medium that runs out of capacity

\* The medium rejects the first or the second of the coming writes
InitQuota ==
  /\ storage \in { [items |-> <<itemRowOf(1, "a", 1, 1),
                                [itemRowOf(2, "b", 1, 1) EXCEPT !.deleted_at = 1]>>,
                      achievements |-> Missing, daily_points |-> Missing,
                      user |-> Missing, migration_status |-> <<>>,
                      quota |-> answers] :
                     answers \in {<<FALSE>>, <<FALSE, FALSE>>, <<FALSE, TRUE>>,
                                  <<TRUE, FALSE>>} }
  /\ clock = 1
  /\ uuid = 2
  /\ calls = 0
  /\ last = [op |-> "init", itemId |-> Null, flag |-> FALSE, input |-> NoInput,
             ret |-> <<>>, threw |-> FALSE, error |-> ""]

NextQuota ==
  \/ Tick
  \/ CreateItem
  \/ UpdateItem
  \/ DeleteItem
  \/ RestoreItem

SpecQuota == InitQuota /\ [][NextQuota]_vars

\* The call recorded in last' gets as far as its set* call
reachesWrite ==
  \/ last'.op = "createItem" /\ itemCreateSchema(last'.input) # <<>>
  \/ /\ last'.op = "updateItem"
     /\ itemUpdateSchema(last'.input) # <<>>
     /\ getItemById(storage, last'.itemId) # <<>>
  \/ /\ last'.op \in {"deleteItem", "restoreItem"}
     /\ getItemById(storage, last'.itemId) # <<>>

bucketsOf(st) == <<st.items, st.achievements, st.daily_points, st.user>>

\* C30: when the medium rejects the write for capacity, createItem, updateItem,
\* deleteItem and restoreItem end in the named quota error of the set* call,
\* thrown in that call and not caught; the write was attempted once, and every
\* bucket keeps the content it had
C30_QuotaErrorPropagates ==
  [][ /\ (calls' = calls + 1 /\ reachesWrite /\ storage.quota # NoQuota
            /\ ~Head(storage.quota)) =>
           /\ last'.threw
           /\ last'.ret = <<>>
           /\ last'.error = "localStorage quota exceeded. Please clear some data."
           /\ bucketsOf(storage') = bucketsOf(storage)
           /\ storage'.quota = Tail(storage.quota)
      /\ (calls' = calls + 1
            /\ last'.error = "localStorage quota exceeded. Please clear some data.") =>
           /\ reachesWrite
           /\ storage.quota # NoQuota /\ ~Head(storage.quota) ]_vars

\* restoreItem has thrown the quota error and the item is still deleted, while
\* the medium would have accepted a second attempt
C30_Witness ==
  /\ last.op = "restoreItem"
  /\ last.threw
  /\ last.error = QuotaError
  /\ last.itemId = 2
  /\ getItemById(storage, 2)[1].deleted_at # Null
  /\ storage.quota = <<TRUE>>
  /\ calls = 1

----------------------------------------------------------------------------
\* Claims on the failure paths and the queries of the item repository

\* C31: an item-repository call that fails leaves every bucket as it was:
\* createItem and updateItem throw on an input that violates the schema, and
\* updateItem, deleteItem and restoreItem return null, without throwing, for
\* an id that is not stored
C31_FailedCallsLeaveStorage ==
  [][ /\ (/\ Called("createItem")
          /\ \/ ~({"text", "type"} \subseteq DOMAIN last'.input)
             \/ ~itemFieldsValid(last'.input)) =>
           last'.threw /\ storage' = storage
      /\ (Called("updateItem") /\ ~itemFieldsValid(last'.input)) =>
           last'.threw /\ storage' = storage
      /\ (/\ calls' = calls + 1
          /\ last'.op \in {"updateItem", "deleteItem", "restoreItem"}
          /\ last'.itemId \notin storedIds(storage)
          /\ (last'.op = "updateItem" => itemFieldsValid(last'.input))) =>
           /\ ~last'.threw
           /\ last'.ret = <<>>
           /\ storage' = storage ]_vars

\* updateItem has thrown on negative points for an item that is stored, and
\* the item still has its points
C31_Witness ==
  /\ last.op = "updateItem"
  /\ last.threw
  /\ last.input = [points |-> 0 - 1]
  /\ last.itemId \in storedIds(storage)
  /\ getItemById(storage, last.itemId)[1].points >= 0

\* The stored items under a parent, the deleted ones only when asked for
childrenOf(st, parentId, includeDeleted) ==
  {row \in rowsOf(getItems(st)) :
     row.parent_id = parentId /\ (includeDeleted \/ row.deleted_at = Null)}

\* C32: getItemsByParentId(parentId, includeDeleted), and getRootItems for the
\* null parent, return exactly the stored items of that parent_id, each once,
\* without the items whose deleted_at is set unless includeDeleted is true,
\* by position ascending, after any sequence of calls
C32_ChildrenByPosition ==
  \A parentId \in storedIds(storage) \cup {Null}, includeDeleted \in BOOLEAN :
    LET result == getItemsByParentId(storage, parentId, includeDeleted) IN
    /\ parentId = Null => getRootItems(storage, includeDeleted) = result
    /\ rowsOf(result) = childrenOf(storage, parentId, includeDeleted)
    /\ Len(result) = Cardinality(childrenOf(storage, parentId, includeDeleted))
    /\ \A i, j \in 1..Len(result) : i < j => result[i].position <= result[j].position

\* The root holds an item of position 1 stored before an item of position 0,
\* and a soft-deleted item that only includeDeleted brings back
C32_Witness ==
  LET items == getItems(storage) IN
  /\ \E i, j \in 1..Len(items) :
       /\ i < j
       /\ items[i].parent_id = Null /\ items[j].parent_id = Null
       /\ items[i].deleted_at = Null /\ items[j].deleted_at = Null
       /\ items[i].position > items[j].position
  /\ Len(getRootItems(storage, TRUE)) > Len(getRootItems(storage, FALSE))
  /\ Len(getRootItems(storage, FALSE)) >= 2

\* C33: updateItem(id, patch) changes the fields of the patch, completed_at
\* and updated_at, and nothing else: completed_at becomes now only when the
\* patch sets completed true on an item that was not completed, null when it
\* sets completed false, and is kept otherwise; id, created_at, deleted_at,
\* user_id and every field the patch does not name keep their values, and
\* every other item and every other bucket stays as it was
C33_UpdateItemFrame ==
  [][ (Called("updateItem") /\ ~last'.threw /\ last'.ret # <<>>) =>
        LET before == getItemById(storage, last'.itemId)[1]
            after == getItemById(storage', last'.itemId)[1]
            patch == last'.input
            sets(b) == "completed" \in DOMAIN patch /\ patch.completed = b
        IN /\ last'.ret = <<after>>
           /\ \A field \in DOMAIN before \ {"completed_at", "updated_at"} :
                after[field] = IF field \in DOMAIN patch /\ field \in ItemUpdateKeys
                               THEN patch[field]
                               ELSE before[field]
           /\ after.completed_at = IF sets(TRUE) /\ ~before.completed THEN clock
                                   ELSE IF sets(FALSE) THEN Null
                                   ELSE before.completed_at
           /\ after.updated_at = clock
           /\ Len(getItems(storage')) = Len(getItems(storage))
           /\ \A i \in 1..Len(getItems(storage)) :
                getItems(storage)[i].id # last'.itemId =>
                  getItems(storage')[i] = getItems(storage)[i]
           /\ [storage' EXCEPT !.items = storage.items] = storage ]_vars

\* An item created earlier is completed by a patch while a second item is
\* stored: it is stamped now and keeps its created_at
C33_Witness ==
  /\ last.op = "updateItem"
  /\ last.input = [completed |-> TRUE]
  /\ last.ret # <<>>
  /\ last.ret[1].completed_at = clock
  /\ last.ret[1].created_at < clock
  /\ Len(getItems(storage)) >= 2

\* The ids reached from an item by following parent_id at most n times
RECURSIVE ancestorsOf(_, _, _)
ancestorsOf(st, itemId, n) ==
  IF n = 0 \/ getItemById(st, itemId) = <<>> THEN {}
  ELSE LET parent == getItemById(st, itemId)[1].parent_id
       IN IF parent = Null THEN {}
          ELSE {parent} \cup ancestorsOf(st, parent, n - 1)

\* C34: in every state reached by createItem and updateItem calls the
\* parent_id relation over the stored items is a forest: no item is its own
\* parent or its own ancestor
C34_ParentsFormAForest ==
  \A itemId \in storedIds(storage) :
    itemId \notin ancestorsOf(storage, itemId, Len(getItems(storage)))

----------------------------------------------------------------------------
\* Further claims on the migration

\* C35: a local item without id match whose text equals, whatever the case
\* and the surrounding whitespace, the text of remote items is reported as a
\* text_match whose cloudItem is the one of earliest created_at among them
C35_TextMatchTakesEarliestRemote ==
  last.op # "init" =>
    \A localItem \in rowsOf(getItems(storage)) :
      (/\ sameId(localItem, last.supabaseItems) = {}
       /\ sameText(localItem, last.supabaseItems) # {}) =>
        \E i \in 1..Len(last.detection.conflicts) :
          LET conflict == last.detection.conflicts[i]
          IN /\ conflict.localItem = localItem
             /\ conflict.conflictReason = "text_match"
             /\ conflict.cloudItem \in sameText(localItem, last.supabaseItems)
             /\ \A r \in sameText(localItem, last.supabaseItems) :
                  conflict.cloudItem.created_at <= r.created_at

\* Two remote items carry the text of a local item in another case and with a
\* leading blank; the one stored second was created first and is reported
C35_Witness ==
  /\ last.op = "detectConflicts"
  /\ Len(last.supabaseItems) = 2
  /\ last.supabaseItems[2].created_at < last.supabaseItems[1].created_at
  /\ \E i \in 1..Len(last.detection.conflicts) :
       LET conflict == last.detection.conflicts[i]
       IN /\ conflict.conflictReason = "text_match"
          /\ conflict.cloudItem = last.supabaseItems[2]
          /\ last.supabaseItems[1] \in sameText(conflict.localItem, last.supabaseItems)
          /\ conflict.cloudItem.text # conflict.localItem.text

\* C36: startMigration, completeMigration, failMigration and resetMigration, called
\* with no stored record or with an id other than the stored record's, throw
\* 'Migration record not found' and leave storage unchanged, so they take effect
\* only on the id of the stored record; the id of an attempt that
\* initializeMigration has replaced is rejected by all four.
C36_OnlyTheStoredIdIsAccepted ==
  [][(\E op \in {"startMigration", "completeMigration", "failMigration",
                 "resetMigration"} : Called(op)) =>
       LET record == getMigrationStatus(storage) IN
       /\ (record = <<>> \/ record[1].migrationId # last'.itemId) =>
            /\ last'.threw
            /\ last'.error = "Migration record not found"
            /\ storage' = storage
       /\ storage' # storage =>
            /\ record # <<>>
            /\ record[1].migrationId = last'.itemId
            /\ getMigrationStatus(storage')[1].migrationId = last'.itemId]_vars

\* The id of a replaced attempt (an id handed out before the stored one) has
\* just been rejected
C36_Witness ==
  /\ last.op \in {"startMigration", "completeMigration", "failMigration",
                  "resetMigration"}
  /\ getMigrationStatus(storage) # <<>>
  /\ last.itemId < getMigrationStatus(storage)[1].migrationId
  /\ last.threw
  /\ last.error = "Migration record not found"

-----------------------------------------------------------------------------
\* Clearing the store: clearAllData of the storage layer and
\* clearMigrationStatus of the migration status, next to the calls that fill
\* the items bucket and the status record

\* clearAllData removing the status record with the four buckets
clearAllData_everything(st) ==
  [storage |-> [st EXCEPT !.items = Missing, !.achievements = Missing,
                          !.daily_points = Missing, !.user = Missing,
                          !.migration_status = <<>>],
   ret |-> <<>>, threw |-> FALSE]

\* Object.values(STORAGE_KEYS).forEach(key => localStorage.removeItem(key))
clearAllData(st) ==
  [storage |-> [st EXCEPT !.items = Missing, !.achievements = Missing,
                          !.daily_points = Missing, !.user = Missing],
   ret |-> <<>>, threw |-> FALSE]

\* localStorage.removeItem(MIGRATION_STATUS_KEY)
clearMigrationStatus(st) ==
  [storage |-> [st EXCEPT !.migration_status = <<>>], ret |-> <<>>, threw |-> FALSE]

ClearAllData ==
  /\ calls < MaxCalls
  /\ LET r == clearAllData(storage) IN
       /\ storage' = r.storage
       /\ last' = called("clearAllData", Null, FALSE, NoInput, r)
  /\ calls' = calls + 1
  /\ UNCHANGED <<clock, uuid>>

ClearMigrationStatus ==
  /\ calls < MaxCalls
  /\ LET r == clearMigrationStatus(storage) IN
       /\ storage' = r.storage
       /\ last' = called("clearMigrationStatus", Null, FALSE, NoInput, r)
  /\ calls' = calls + 1
  /\ UNCHANGED <<clock, uuid>>

NextClear ==
  \/ NextMigration
  \/ CreateItem
  \/ ClearAllData
  \/ ClearMigrationStatus

SpecClear == Init /\ [][NextClear]_vars

-----------------------------------------------------------------------------
\* The item repository on an items bucket that holds unparseable text

\* Two items were created before the text of the bucket was damaged
InitMalformed ==
  /\ storage = [items |-> Malformed, achievements |-> Missing,
                daily_points |-> Missing, user |-> Missing,
                migration_status |-> <<>>, quota |-> NoQuota]
  /\ clock = 1
  /\ uuid = 2
  /\ calls = 0
  /\ last = [op |-> "init", itemId |-> Null, flag |-> FALSE, input |-> NoInput,
             ret |-> <<>>, threw |-> FALSE, error |-> ""]

SpecMalformed == InitMalformed /\ [][NextQuota]_vars

\* C40: on an items bucket holding malformed JSON, createItem of a valid input
\* returns the new item without an error and leaves the bucket an array of
\* that item alone; updateItem of a valid patch, deleteItem and restoreItem
\* return null without an error and leave storage as it was.
C40_MalformedBucketIsReplaced ==
  [][(calls' = calls + 1 /\ storage.items = Malformed) =>
       /\ (last'.op = "createItem" /\ itemCreateSchema(last'.input) # <<>>) =>
            /\ ~last'.threw
            /\ last'.error = ""
            /\ last'.ret # <<>>
            /\ last'.ret[1].id = uuid'
            /\ storage'.items = <<last'.ret[1]>>
            /\ storage' = [storage EXCEPT !.items = <<last'.ret[1]>>]
       /\ (\/ last'.op = "updateItem" /\ itemUpdateSchema(last'.input) # <<>>
           \/ last'.op \in {"deleteItem", "restoreItem"}) =>
            /\ ~last'.threw
            /\ last'.error = ""
            /\ last'.ret = <<>>
            /\ storage' = storage]_vars

\* createItem has just replaced the damaged bucket by an array of its one item
C40_Witness ==
  /\ last.op = "createItem"
  /\ calls = 1
  /\ ~last.threw
  /\ uuid = 3
  /\ storage.items = <<last.ret[1]>>

-----------------------------------------------------------------------------
\* The group operations of the auto-link engine on a medium that runs out of
\* capacity

\* Three active items of one text and one of another; the medium rejects the
\* first, the second or the third of the coming writes, and two calls are left
InitGroupQuota ==
  /\ storage \in { [items |-> <<itemRowOf(1, "a", 1, 1), itemRowOf(2, "A", 1, 1),
                                itemRowOf(3, "a", 1, 1), itemRowOf(4, "b", 1, 1)>>,
                      achievements |-> Missing, daily_points |-> Missing,
                      user |-> Missing, migration_status |-> <<>>,
                      quota |-> answers] :
                     answers \in {<<FALSE>>, <<TRUE, FALSE>>, <<TRUE, FALSE, TRUE>>,
                                  <<TRUE, TRUE, FALSE>>} }
  /\ clock = 1
  /\ uuid = 4
  /\ calls = MaxCalls - 2
  /\ last = [op |-> "init", itemId |-> Null, flag |-> FALSE, input |-> NoInput,
             ret |-> <<>>, threw |-> FALSE, error |-> ""]

NextGroupQuota ==
  \/ Tick
  \/ HandleItemDeletion
  \/ SyncLinkedItemUpdates

SpecGroupQuota == InitGroupQuota /\ [][NextGroupQuota]_vars

\* How many of the coming writes the medium accepts before it rejects one
RECURSIVE acceptedBefore(_)
acceptedBefore(answers) ==
  IF answers = <<>> \/ ~Head(answers) THEN 0 ELSE 1 + acceptedBefore(Tail(answers))

\* C38: handleItemDeletion(id, true) and syncLinkedItemUpdates(id, patch, true)
\* write once per member of the group; when the medium rejects the write of a
\* member, the call ends in the capacity error, the members before it stay
\* soft-deleted (or updated) and that member and the ones after it, like every
\* item outside the group, are as they were.
C38_GroupOperationIsNotAtomic ==
  [][(/\ calls' = calls + 1
      /\ last'.op \in {"handleItemDeletion", "syncLinkedItemUpdates"}
      /\ last'.flag
      /\ last'.op = "syncLinkedItemUpdates" => itemUpdateSchema(last'.input) # <<>>
      /\ getItemById(storage, last'.itemId) # <<>>) =>
       LET group == findDuplicateItems(storage, getItemById(storage, last'.itemId)[1].text)
           accepted == acceptedBefore(storage.quota)
           fails == storage.quota # NoQuota /\ accepted < Len(storage.quota)
                      /\ accepted < Len(group)
           done == IF fails THEN accepted ELSE Len(group)
           before(id) == getItemById(storage, id)[1]
           after(id) == getItemById(storage', id)[1]
       IN /\ last'.threw = fails
          /\ fails => last'.error = QuotaError
          /\ Len(storage'.quota) =
               LET writes == IF fails THEN done + 1 ELSE done
               IN IF writes < Len(storage.quota) THEN Len(storage.quota) - writes ELSE 0
          /\ Len(getItems(storage')) = Len(getItems(storage))
          /\ \A i \in 1..Len(group) :
               IF i <= done
               THEN IF last'.op = "handleItemDeletion"
                    THEN /\ before(group[i].id).deleted_at = Null
                         /\ after(group[i].id).deleted_at # Null
                    ELSE \A k \in DOMAIN itemUpdateSchema(last'.input)[1] :
                           after(group[i].id)[k] = itemUpdateSchema(last'.input)[1][k]
               ELSE after(group[i].id) = before(group[i].id)
          /\ \A j \in 1..Len(getItems(storage)) :
               (\A i \in 1..Len(group) : group[i].id # getItems(storage)[j].id) =>
                 getItems(storage')[j] = getItems(storage)[j]]_vars

\* handleItemDeletion of a group of three has ended in the capacity error with
\* one member soft-deleted and two still active
C38_Witness ==
  /\ last.op = "handleItemDeletion"
  /\ last.flag
  /\ last.threw
  /\ last.error = QuotaError
  /\ Cardinality({i \in 1..Len(getItems(storage)) :
                    getItems(storage)[i].deleted_at # Null}) = 1
  /\ Len(findDuplicateItems(storage, "a")) = 2

-----------------------------------------------------------------------------
\* Two contexts on one store, interleaved at the storage calls: a mutating call
\* of the item repository is a getItems() and, later, a setItems(items) of the
\* array it built from what it read

\* Two items are stored and no call is under way
InitContexts ==
  /\ storage = [items |-> <<itemRowOf(1, "a", 1, 1), itemRowOf(2, "b", 1, 1)>>,
                achievements |-> Missing, daily_points |-> Missing,
                user |-> Missing, migration_status |-> <<>>, quota |-> NoQuota]
  /\ clock = 1
  /\ uuid = 2
  /\ calls = 0
  /\ last = [op |-> "init", pending |-> [context \in {"A", "B"} |-> <<>>],
             log |-> <<>>, done |-> <<>>]

\* const items = getItems() of a createItem, updateItem or deleteItem that
\* will write, and the array the call builds from it
ContextReads ==
  /\ calls < MaxCalls
  /\ \E context \in {"A", "B"} :
       /\ last.pending[context] = <<>>
       /\ \E r \in { createItem(storage, [text |-> text, type |-> "step"], clock, uuid + 1) :
                        text \in {"a", "c"} }
                   \cup { updateItem(storage, itemId, patch, clock) :
                            itemId \in storedIds(storage),
                            patch \in {[completed |-> TRUE], [text |-> "c"]} }
                   \cup { deleteItem(storage, itemId, clock) :
                            itemId \in storedIds(storage) } :
            /\ last' = [last EXCEPT
                          !.op = "getItems",
                          !.pending[context] = <<[read |-> getItems(storage),
                                                  items |-> getItems(r.storage),
                                                  ret |-> r.ret[1]]>>,
                          !.log = Append(@, [context |-> context, step |-> "getItems"])]
            /\ uuid' = IF r.ret[1].id = uuid + 1 THEN uuid + 1 ELSE uuid
  /\ calls' = calls + 1
  /\ UNCHANGED <<storage, clock>>

\* setItems(items) of a merging store: the one element of the call is put
\* into the bucket as it is at the write
ContextWrites_merging ==
  /\ \E context \in {"A", "B"} :
       /\ last.pending[context] # <<>>
       /\ LET call == last.pending[context][1]
              items == getItems(storage)
              index == findIndex(items, call.ret.id)
          IN /\ storage' = setItems(storage, IF index = 0 THEN Append(items, call.ret)
                                             ELSE [items EXCEPT ![index] = call.ret])
             /\ last' = [last EXCEPT
                           !.op = "setItems",
                           !.pending[context] = <<>>,
                           !.done = <<[context |-> context, read |-> call.read,
                                       items |-> call.items, ret |-> call.ret]>>,
                           !.log = Append(@, [context |-> context, step |-> "setItems",
                                              ret |-> call.ret])]
  /\ calls' = calls + 1
  /\ UNCHANGED <<clock, uuid>>

\* setItems(items) of the call a context has under way
ContextWrites ==
  /\ \E context \in {"A", "B"} :
       /\ last.pending[context] # <<>>
       /\ LET call == last.pending[context][1]
          IN /\ storage' = setItems(storage, call.items)
             /\ last' = [last EXCEPT
                           !.op = "setItems",
                           !.pending[context] = <<>>,
                           !.done = <<[context |-> context, read |-> call.read,
                                       items |-> call.items, ret |-> call.ret]>>,
                           !.log = Append(@, [context |-> context, step |-> "setItems",
                                              ret |-> call.ret])]
  /\ calls' = calls + 1
  /\ UNCHANGED <<clock, uuid>>

NextContexts ==
  \/ Tick
  \/ ContextReads
  \/ ContextWrites

SpecContexts == InitContexts /\ [][NextContexts]_vars

\* The element of an array with the id, <<>> without one
elementOf(items, id) ==
  IF findIndex(items, id) = 0 THEN <<>> ELSE <<items[findIndex(items, id)]>>

\* The writes of the other context since the context that wrote last had read
writesSinceRead ==
  LET context == last.done[1].context
      readAt == CHOOSE i \in 1..Len(last.log) :
                  /\ last.log[i] = [context |-> context, step |-> "getItems"]
                  /\ \A j \in (i + 1)..Len(last.log) :
                       last.log[j] # [context |-> context, step |-> "getItems"]
  IN { i \in (readAt + 1)..Len(last.log) :
         last.log[i].step = "setItems" /\ last.log[i].context # context }

\* C37: when a context writes, the bucket becomes the array the context built
\* from its own read: the element of its call is in it, every other element is
\* as the context read it, and what the other context wrote since that read
\* (an update or deletion of another item, a newly created item) is absent.
C37_LastWriterOverwritesTheBucket ==
  (last.op = "setItems") =>
    LET call == last.done[1] IN
    /\ getItems(storage) = call.items
    /\ elementOf(getItems(storage), call.ret.id) = <<call.ret>>
    /\ \A i \in writesSinceRead :
         last.log[i].ret.id # call.ret.id =>
           /\ elementOf(getItems(storage), last.log[i].ret.id)
                = elementOf(call.read, last.log[i].ret.id)
           /\ elementOf(call.read, last.log[i].ret.id) = <<>> =>
                last.log[i].ret.id \notin storedIds(storage)

\* A read, B read and wrote a change of its own, then A wrote: B created an
\* item that the bucket no longer holds
C37_Witness ==
  /\ last.op = "setItems"
  /\ Len(last.log) = 4
  /\ last.log[1] = [context |-> "A", step |-> "getItems"]
  /\ last.log[2] = [context |-> "B", step |-> "getItems"]
  /\ last.log[3].context = "B"
  /\ last.log[3].step = "setItems"
  /\ last.log[3].ret.id = 3
  /\ last.log[4].context = "A"
  /\ last.done[1].ret.id = 1
  /\ storedIds(storage) = {1, 2}

====
